---------------------------- MODULE Spec2Model ----------------------------
(***************************************************************************)
(* Cosmos Navigator: the simulation core (TimeController, the Kepler       *)
(* solver, the orbit evaluator, the body hierarchy and the render-loop     *)
(* tick) as a state machine.                                               *)
(*                                                                         *)
(* Numbers.  A JavaScript `number` is an IEEE-754 double.  It is modelled  *)
(* as a binary float of reduced precision: an integer count of quanta      *)
(* (QuantaPerDay quanta to the day for dates) that keeps MantBits          *)
(* significant bits, rounded to nearest, ties to even (Round).  The three  *)
(* non-finite doubles are three values beyond the finite range.            *)
(***************************************************************************)
EXTENDS Integers, Sequences, FiniteSets, TLC

(***************************************************************************)
(* Bounds of the model                                                     *)
(***************************************************************************)
\* resolution of a stored date: quanta per day
QuantaPerDay == 64
\* significant bits a modelled number keeps
MantBits == 29
\* simulated real seconds a run accumulates at most
MaxSimSeconds == 2
\* resolution of an angle in radians, of a sine and of an eccentricity: quanta per unit
AngleScale == 10000
\* the solver's tolerance in angle quanta: the source's 1e-10 is to the rounding error of a
\* double what this is to the rounding error of the model's arithmetic, which like the
\* source's lets every mean anomaly of one revolution converge
KEPLER_TOLERANCE == 16
\* the segments of an orbit line, of the source's 256
OrbitSegments == 4
\* the update() calls two bodies on their own receive
MaxUpdates == 2
\* the binary places of the fraction of a day that a Julian date converted from a calendar
\* date keeps, of the 31 a double between 2^21 and 2^22 has
DayFractionBits == 24

(***************************************************************************)
(* Program constants                                                       *)
(***************************************************************************)
J2000_JD == 2451545
MAX_TIME_SCALE == 10000000
MIN_JULIAN_DATE == 0
MAX_JULIAN_DATE == 20000000
SecondsPerDay == 86400
MsPerSecond == 1000
MAX_KEPLER_ITERATIONS == 100
SCALE_FACTOR == 100
MOON_ORBIT_SCALE == 50
MAX_BODIES == 200
MAX_CELESTIAL_BODIES == 200
\* in seconds
MAX_DELTA_TIME == 1
\* in 1e-5 AU
MIN_SEMI_MAJOR_AXIS == 1
\* in AU
MAX_SEMI_MAJOR_AXIS == 100000

(***************************************************************************)
(* Numbers                                                                 *)
(***************************************************************************)
\* Infinity, -Infinity and NaN are three values outside the range of the finite numbers
PosInf == (2 ^ 30 - 1) + 2 ^ 30
NegInf == -PosInf
NaN == NegInf + 1
NonFinite == {NaN, PosInf, NegInf}

\* Number.isNaN, Number.isFinite
IsNaN(v) == v = NaN
IsFinite(v) == v \notin NonFinite

Abs(x) == IF x < 0 THEN -x ELSE x
Min(a, b) == IF a < b THEN a ELSE b

\* unit in the last place of a number of magnitude m
RECURSIVE UlpOf(_)
UlpOf(m) == IF m < 2 ^ MantBits THEN 1 ELSE 2 * UlpOf(m \div 2)

\* the quotient q of a division by u that left the remainder r, rounded to nearest, ties to even
NearestEven(q, r, u) ==
    IF 2 * r < u THEN q
    ELSE IF 2 * r > u THEN q + 1
    ELSE IF q % 2 = 0 THEN q ELSE q + 1

\* round to the nearest multiple of u, ties to even
RoundTo(x, u) == NearestEven(x \div u, x - (x \div u) * u, u) * u

\* round to nearest representable number, ties to even
Round(x) == RoundTo(x, UlpOf(Abs(x)))

\* a / b rounded to the nearest integer, ties to even (b > 0)
RoundDiv(a, b) == NearestEven(a \div b, a - (a \div b) * b, b)

FAdd(a, b) == Round(a + b)

\* a whole number of days as a date in quanta
Days(n) == n * QuantaPerDay

(***************************************************************************)
(* State                                                                   *)
(***************************************************************************)
VARIABLES
    julianDate,       \* TimeController.julianDate, in quanta
    timeScale,        \* TimeController.timeScale
    isPaused,         \* TimeController.isPaused
    accumulatedTime,  \* TimeController.accumulatedTime, in milliseconds
    listeners,        \* TimeController.listeners
    lastOp,           \* the call that ran last
    lastError,        \* the error that call raised, or NoError
    notified,         \* the listener invocations that call made
    probe,            \* history: an update, a flip of the scale's sign, the same update
    kepler,           \* the last call of solveKeplerEquation: its arguments and its outcome
    isInitialized,    \* CosmosApp.isInitialized
    isRunning,        \* CosmosApp.isRunning
    frameId,          \* CosmosApp.frameId: the handle of the frame requested last, or 0
    pendingFrames,    \* the handles of the animation frames requested and not yet run or cancelled
    orbitalData,      \* the tables of orbital elements the builder reads
    allBodies,        \* SolarSystemBuilder.allBodies: the bodies, in the order pushed
    position,         \* each body's group.position: its world position
    computedFor,      \* history: the Julian date each body's position was computed for in
                      \* the pass made last, Undefined where the pass did not reach it
    parentSeenFor,    \* history: what computedFor said of the parent when the body read the
                      \* parent's position in that pass
    appOp,            \* the CosmosApp method that ran last
    appError,         \* the error that call raised, or NoError
    passDates,        \* the Julian dates of the passes over the bodies that call made
    subjects,         \* two bodies on their own: each one's configuration, and what the
                      \* constructor, init() and update() made of it
    calls,            \* the update() calls the two bodies received, in order
    calendar,         \* a calendar date on its own, and what the conversions made of it
    orbit             \* an element set and an instant on their own, and what the evaluator
                      \* made of them at the instant and one orbital period later

timeVars == <<julianDate, timeScale, isPaused, accumulatedTime, listeners>>
callVars == <<lastOp, lastError, notified, probe>>
appVars == <<isInitialized, isRunning, frameId, pendingFrames, orbitalData, allBodies, position,
             computedFor, parentSeenFor, appOp, appError, passDates>>
soloVars == <<subjects, calls, calendar, orbit>>
vars == <<timeVars, callVars, kepler, appVars, soloVars>>

NoError == "none"

\* no reversal experiment is under way
NoProbe == [phase |-> 0, jd |-> 0, d |-> 0, scale |-> 0, mid |-> 0]

\* the scale becomes newScale: the experiment goes on if that flips the sign it ran with
FlipProbe(newScale) ==
    IF probe.phase = 1 /\ newScale = -probe.scale
    THEN [probe EXCEPT !.phase = 2]
    ELSE NoProbe

\* the callbacks the program registers: the time controls panel's display update
Listeners == {"TimeControlsUI.updateDisplay"}

(***************************************************************************)
(* TimeController                                                          *)
(***************************************************************************)
\* new Date(Date.UTC(year, month - 1, day, hour, minute, second))
UTCDate(y, mo, d, h, mi, sec) ==
    [valid |-> TRUE, year |-> y, month |-> mo, day |-> d, hour |-> h, minute |-> mi,
     second |-> sec]

\* new Date(NaN): a Date whose getTime() is NaN
InvalidDate == [UTCDate(0, 0, 0, 0, 0, 0) EXCEPT !.valid = FALSE]

\* date instanceof Date && !isNaN(date.getTime())
IsValidDate(date) == date.valid

\* readings of the system clock (new Date())
NowDates == {UTCDate(2026, 11, 6, 0, 0, 0)}

\* a Julian date kept to 1/TicksPerDay of a day: whole days and ticks, the ticks given
\* being none or more
TicksPerDay == 2 ^ DayFractionBits
FineJD(whole, ticks) ==
    [whole |-> whole + (ticks \div TicksPerDay), ticks |-> ticks % TicksPerDay]

\* a conversion of a calendar date and back: the date, how far the conversion has come
\* ("date", "julian", "back", "again"), dateToJulian(date), the error julianToDate threw on
\* it, the date it returned, and dateToJulian of that date
Conversion(date) ==
    [date |-> date, stage |-> "date", jd |-> FineJD(0, 0), error |-> NoError,
     back |-> InvalidDate, again |-> FineJD(0, 0)]

\* no date is converted
NoConversion == calendar = [Conversion(InvalidDate) EXCEPT !.stage = "none"]

\* TimeController.dateToJulian (Meeus), for a valid Date
dateToJulian(date) ==
    LET y == IF date.month <= 2 THEN date.year - 1 ELSE date.year
        m == IF date.month <= 2 THEN date.month + 12 ELSE date.month
        A == y \div 100
        B == 2 - A + (A \div 4)
        \* Math.floor(365.25 * (y + 4716)) + Math.floor(30.6001 * (m + 1)) + day + B - 1524.5
        \* is a whole number of days less one half
        whole == ((1461 * (y + 4716)) \div 4) + ((306001 * (m + 1)) \div 10000)
                 + date.day + B - 1525
        secs == date.hour * 3600 + date.minute * 60 + date.second
    IN  Round(Days(whole) + RoundDiv((secs + SecondsPerDay \div 2) * QuantaPerDay, SecondsPerDay))

\* julianDate > MIN_JULIAN_DATE && julianDate < MAX_JULIAN_DATE
InBand(jd) == jd > Days(MIN_JULIAN_DATE) /\ jd < Days(MAX_JULIAN_DATE)

\* TimeController.getState, without the calendar date
getState(jd, scale, paused, acc) ==
    [julianDate |-> jd, simulationTime |-> acc, timeScale |-> scale,
     isPaused |-> paused, isReversed |-> scale < 0]

\* assertFinite's message for a value that is not finite: NaN is reported apart
NotFiniteError(v, nanMessage, infMessage) == IF IsNaN(v) THEN nanMessage ELSE infMessage

\* the call raised `err` before it reached notifyListeners
Throw(err) ==
    /\ lastError' = err
    /\ notified' = {}

\* a notifyListeners that hands over the state as it was before the call
notifyListenersStale(jd, scale, paused, acc) ==
    IF InBand(jd)
    THEN /\ lastError' = NoError
         /\ notified' = {[listener |-> l,
                          state |-> getState(julianDate, timeScale, isPaused, accumulatedTime)] :
                            l \in listeners}
    ELSE Throw("Julian date must be in valid range for conversion")

\* TimeController.notifyListeners on the state the call leaves: getState() converts
\* the date with julianToDate, which raises for a date outside the band
notifyListeners(jd, scale, paused, acc) ==
    IF InBand(jd)
    THEN /\ lastError' = NoError
         /\ notified' = {[listener |-> l, state |-> getState(jd, scale, paused, acc)] :
                            l \in listeners}
    ELSE Throw("Julian date must be in valid range for conversion")

\* the elapsed days whatever the direction of time
DeltaDaysOneWay(deltaSeconds, scale) ==
    Round(RoundDiv(deltaSeconds * Abs(scale) * QuantaPerDay, SecondsPerDay))

\* (deltaSeconds * this.timeScale) / 86400, in quanta
DeltaDays(deltaSeconds, scale) ==
    Round(RoundDiv(deltaSeconds * scale * QuantaPerDay, SecondsPerDay))

\* an update that does not look at the paused flag
UpdateWhilePaused(deltaSeconds) ==
    /\ lastOp' = "update"
    /\ IsFinite(deltaSeconds) /\ deltaSeconds >= 0
    /\ LET jd == FAdd(julianDate, DeltaDays(deltaSeconds, timeScale))
           acc == accumulatedTime + deltaSeconds * MsPerSecond
       IN  /\ acc <= MaxSimSeconds * MsPerSecond
           /\ probe' = NoProbe
           /\ julianDate' = jd
           /\ accumulatedTime' = acc
           /\ UNCHANGED <<timeScale, isPaused, listeners>>
           /\ notifyListeners(jd, timeScale, isPaused, acc)

\* an update that moves the date by the magnitude of the scale only
UpdateAbsScale(deltaSeconds) ==
    /\ lastOp' = "update"
    /\ IsFinite(deltaSeconds) /\ deltaSeconds >= 0
    /\ LET jd == FAdd(julianDate, DeltaDays(deltaSeconds, Abs(timeScale)))
           acc == accumulatedTime + deltaSeconds * MsPerSecond
       IN  /\ acc <= MaxSimSeconds * MsPerSecond
           /\ probe' = NoProbe
           /\ julianDate' = jd
           /\ accumulatedTime' = acc
           /\ UNCHANGED <<timeScale, isPaused, listeners>>
           /\ notifyListeners(jd, timeScale, isPaused, acc)

\* TimeController.update
Update(deltaSeconds) ==
    /\ lastOp' = "update"
    /\ IF isPaused
       THEN /\ lastError' = NoError
            /\ notified' = {}
            /\ probe' = NoProbe
            /\ UNCHANGED timeVars
       ELSE IF ~IsFinite(deltaSeconds)
       THEN Throw(NotFiniteError(deltaSeconds, "Delta seconds must be a valid number, got NaN",
                                 "Delta seconds must be finite")) /\ probe' = NoProbe /\ UNCHANGED timeVars
       ELSE IF deltaSeconds < 0
       THEN Throw("Delta seconds must be non-negative (>= 0)") /\ probe' = NoProbe
            /\ UNCHANGED timeVars
       ELSE LET jd == FAdd(julianDate, DeltaDays(deltaSeconds, timeScale))
                acc == accumulatedTime + deltaSeconds * MsPerSecond
            IN  /\ acc <= MaxSimSeconds * MsPerSecond
                /\ probe' = IF probe.phase = 2 /\ probe.d = deltaSeconds
                             THEN [probe EXCEPT !.phase = 3]
                             ELSE [phase |-> 1, jd |-> julianDate, d |-> deltaSeconds,
                                   scale |-> timeScale, mid |-> jd]
                /\ julianDate' = jd
                /\ accumulatedTime' = acc
                /\ UNCHANGED <<timeScale, isPaused, listeners>>
                /\ IF InBand(jd)
                   THEN notifyListeners(jd, timeScale, isPaused, acc)
                   ELSE Throw("Julian date must remain in valid range after update")

\* a setTimeScale that checks only that the scale is finite
SetTimeScaleUnchecked(scale) ==
    /\ lastOp' = "setTimeScale"
    /\ IsFinite(scale)
    /\ timeScale' = scale
    /\ probe' = NoProbe
    /\ UNCHANGED <<julianDate, isPaused, accumulatedTime, listeners>>
    /\ notifyListeners(julianDate, scale, isPaused, accumulatedTime)

\* TimeController.setTimeScale
SetTimeScale(scale) ==
    /\ lastOp' = "setTimeScale"
    /\ IF ~IsFinite(scale)
       THEN Throw(NotFiniteError(scale, "Time scale must be a valid number, got NaN",
                                 "Time scale must be finite")) /\ probe' = NoProbe /\ UNCHANGED timeVars
       ELSE IF ~(Abs(scale) >= 0 /\ Abs(scale) <= MAX_TIME_SCALE)
       THEN Throw("Absolute time scale must be between 0 and 10000000") /\ probe' = NoProbe
            /\ UNCHANGED timeVars
       ELSE /\ timeScale' = scale
            /\ probe' = FlipProbe(scale)
            /\ UNCHANGED <<julianDate, isPaused, accumulatedTime, listeners>>
            /\ notifyListeners(julianDate, scale, isPaused, accumulatedTime)

\* TimeController.pause
Pause ==
    /\ lastOp' = "pause"
    /\ probe' = NoProbe
    /\ isPaused' = TRUE
    /\ UNCHANGED <<julianDate, timeScale, accumulatedTime, listeners>>
    /\ notifyListeners(julianDate, timeScale, TRUE, accumulatedTime)

\* TimeController.resume
Resume ==
    /\ lastOp' = "resume"
    /\ probe' = NoProbe
    /\ isPaused' = FALSE
    /\ UNCHANGED <<julianDate, timeScale, accumulatedTime, listeners>>
    /\ notifyListeners(julianDate, timeScale, FALSE, accumulatedTime)

\* TimeController.togglePause
TogglePause ==
    /\ lastOp' = "togglePause"
    /\ probe' = NoProbe
    /\ isPaused' = ~isPaused
    /\ UNCHANGED <<julianDate, timeScale, accumulatedTime, listeners>>
    /\ notifyListeners(julianDate, timeScale, ~isPaused, accumulatedTime)

\* a reverse that negates the scale whatever its sign
ReverseNegate ==
    /\ lastOp' = "reverse"
    /\ probe' = FlipProbe(-timeScale)
    /\ timeScale' = -timeScale
    /\ UNCHANGED <<julianDate, isPaused, accumulatedTime, listeners>>
    /\ notifyListeners(julianDate, -timeScale, isPaused, accumulatedTime)

\* TimeController.reverse
Reverse ==
    /\ lastOp' = "reverse"
    /\ probe' = FlipProbe(-Abs(timeScale))
    /\ timeScale' = -Abs(timeScale)
    /\ UNCHANGED <<julianDate, isPaused, accumulatedTime, listeners>>
    /\ notifyListeners(julianDate, -Abs(timeScale), isPaused, accumulatedTime)

\* TimeController.forward
Forward ==
    /\ lastOp' = "forward"
    /\ probe' = FlipProbe(Abs(timeScale))
    /\ timeScale' = Abs(timeScale)
    /\ UNCHANGED <<julianDate, isPaused, accumulatedTime, listeners>>
    /\ notifyListeners(julianDate, Abs(timeScale), isPaused, accumulatedTime)

\* TimeController.setDate
SetDate(date) ==
    /\ lastOp' = "setDate"
    /\ probe' = NoProbe
    /\ IF ~IsValidDate(date)
       THEN Throw("setDate requires valid Date object") /\ UNCHANGED timeVars
       ELSE /\ julianDate' = dateToJulian(date)
            /\ UNCHANGED <<timeScale, isPaused, accumulatedTime, listeners>>
            /\ notifyListeners(dateToJulian(date), timeScale, isPaused, accumulatedTime)

\* TimeController.setJulianDate
SetJulianDate(jd) ==
    /\ lastOp' = "setJulianDate"
    /\ probe' = NoProbe
    /\ IF ~IsFinite(jd)
       THEN Throw(NotFiniteError(jd, "Julian date for setJulianDate must be a valid number, got NaN",
                                 "Julian date for setJulianDate must be finite")) /\ UNCHANGED timeVars
       ELSE IF ~InBand(jd)
       THEN Throw("Julian date must be in valid range") /\ UNCHANGED timeVars
       ELSE /\ julianDate' = jd
            /\ UNCHANGED <<timeScale, isPaused, accumulatedTime, listeners>>
            /\ notifyListeners(jd, timeScale, isPaused, accumulatedTime)

\* TimeController.jumpToNow
JumpToNow(now) ==
    /\ lastOp' = "jumpToNow"
    /\ probe' = NoProbe
    /\ julianDate' = dateToJulian(now)
    /\ UNCHANGED <<timeScale, isPaused, accumulatedTime, listeners>>
    /\ notifyListeners(dateToJulian(now), timeScale, isPaused, accumulatedTime)

\* TimeController.jumpToJ2000
JumpToJ2000 ==
    /\ lastOp' = "jumpToJ2000"
    /\ probe' = NoProbe
    /\ julianDate' = Days(J2000_JD)
    /\ UNCHANGED <<timeScale, isPaused, accumulatedTime, listeners>>
    /\ notifyListeners(Days(J2000_JD), timeScale, isPaused, accumulatedTime)

\* an addDays that assigns the sum before it checks the band, as update() does
AddDaysAssignFirst(days) ==
    /\ lastOp' = "addDays"
    /\ probe' = NoProbe
    /\ IF ~IsFinite(days)
       THEN Throw(NotFiniteError(days, "Days to add must be a valid number, got NaN",
                                 "Days to add must be finite")) /\ UNCHANGED timeVars
       ELSE LET newJd == FAdd(julianDate, days)
            IN  /\ julianDate' = newJd
                /\ UNCHANGED <<timeScale, isPaused, accumulatedTime, listeners>>
                /\ IF ~InBand(newJd)
                   THEN Throw("Julian date must remain in valid range after adding days")
                   ELSE notifyListeners(newJd, timeScale, isPaused, accumulatedTime)

\* TimeController.addDays
AddDays(days) ==
    /\ lastOp' = "addDays"
    /\ probe' = NoProbe
    /\ IF ~IsFinite(days)
       THEN Throw(NotFiniteError(days, "Days to add must be a valid number, got NaN",
                                 "Days to add must be finite")) /\ UNCHANGED timeVars
       ELSE LET newJd == FAdd(julianDate, days)
            IN  IF ~InBand(newJd)
                THEN Throw("Julian date must remain in valid range after adding days")
                     /\ UNCHANGED timeVars
                ELSE /\ julianDate' = newJd
                     /\ UNCHANGED <<timeScale, isPaused, accumulatedTime, listeners>>
                     /\ notifyListeners(newJd, timeScale, isPaused, accumulatedTime)

\* TimeController.addListener
AddListener(l) ==
    /\ lastOp' = "addListener"
    /\ probe' = NoProbe
    /\ listeners' = listeners \cup {l}
    /\ UNCHANGED <<julianDate, timeScale, isPaused, accumulatedTime>>
    /\ lastError' = NoError
    /\ notified' = {}

\* TimeController.removeListener
RemoveListener(l) ==
    /\ lastOp' = "removeListener"
    /\ probe' = NoProbe
    /\ listeners' = listeners \ {l}
    /\ UNCHANGED <<julianDate, timeScale, isPaused, accumulatedTime>>
    /\ lastError' = NoError
    /\ notified' = {}

(***************************************************************************)
(* Fixed-point arithmetic of the orbit evaluator                           *)
(*                                                                         *)
(* Angles in radians, sines, cosines and eccentricities are counted in     *)
(* quanta of 1 / AngleScale.  Lengths are counted in 1e-5 AU, the angles   *)
(* of an element set in hundredths of a degree, mean motions in millionths *)
(* of a degree per day.  Every product and quotient is rounded to nearest, *)
(* ties to even, as the double operation it stands for is.                 *)
(***************************************************************************)
Pi == RoundDiv(355 * AngleScale, 113)
HalfPi == RoundDiv(355 * AngleScale, 226)
TwoPi == 2 * Pi

\* a * b / AngleScale
MulFix(a, b) == (a \div AngleScale) * b + RoundDiv((a % AngleScale) * b, AngleScale)

\* a * AngleScale / b, for b > 0
DivFix(a, b) == (a \div b) * AngleScale + RoundDiv((a % b) * AngleScale, b)

\* a / b rounded to nearest, for b # 0
SignedDiv(a, b) == IF b > 0 THEN RoundDiv(a, b) ELSE RoundDiv(-a, -b)

\* Math.sin on the first quadrant: the Taylor polynomial to x^9, in Horner form
SinSeries(x, x2) ==
    MulFix(x, AngleScale - RoundDiv(MulFix(x2,
              AngleScale - RoundDiv(MulFix(x2,
              AngleScale - RoundDiv(MulFix(x2,
              AngleScale - RoundDiv(x2, 72)), 42)), 20)), 6))

SinFirstQuadrant(x) == Min(AngleScale, SinSeries(x, MulFix(x, x)))

\* Math.sin on the first half turn
SinFirstHalf(r) == SinFirstQuadrant(IF r <= HalfPi THEN r ELSE Pi - r)

\* Math.sin on the first turn
SinFirstTurn(r) == IF r <= Pi THEN SinFirstHalf(r) ELSE -SinFirstHalf(r - Pi)

\* Math.sin
Sin(x) == SinFirstTurn(x % TwoPi)

\* Math.cos
Cos(x) == Sin(x + HalfPi)

\* Math.tan; where the cosine rounds to zero the tangent is the largest the model holds
Tan(x) ==
    LET c == Cos(x)
        s == Sin(x)
    IN  IF c = 0 THEN (IF s >= 0 THEN AngleScale * AngleScale ELSE -(AngleScale * AngleScale))
        ELSE SignedDiv(s * AngleScale, c)

RECURSIVE ISqrtIn(_, _, _)
ISqrtIn(n, lo, hi) ==
    IF lo >= hi THEN lo
    ELSE LET mid == (lo + hi + 1) \div 2
         IN  IF mid * mid <= n THEN ISqrtIn(n, mid, hi) ELSE ISqrtIn(n, lo, mid - 1)

\* the integer nearest to the square root of n
ISqrt(n) == LET r == ISqrtIn(n, 0, 46340) IN IF n - r * r <= r THEN r ELSE r + 1

\* Math.sqrt
RECURSIVE Sqrt(_)
Sqrt(x) == IF x < 200000 THEN ISqrt(x * AngleScale) ELSE 2 * Sqrt(RoundDiv(x, 4))

\* Math.atan on [0, 1]: the polynomial 4.4.47 of Abramowitz and Stegun, in Horner form
AtanUnit(t) ==
    LET x2 == MulFix(t, t)
        c9 == RoundDiv(2084 * AngleScale, 100000)
        c7 == RoundDiv(-8513 * AngleScale, 100000)
        c5 == RoundDiv(18014 * AngleScale, 100000)
        c3 == RoundDiv(-33030 * AngleScale, 100000)
        c1 == RoundDiv(99987 * AngleScale, 100000)
        h7 == c7 + MulFix(x2, c9)
        h5 == c5 + MulFix(x2, h7)
        h3 == c3 + MulFix(x2, h5)
        h1 == c1 + MulFix(x2, h3)
    IN  MulFix(t, h1)

\* Math.atan on the numbers that are not negative
AtanOfMagnitude(m) ==
    IF m <= AngleScale THEN AtanUnit(m)
    ELSE HalfPi - AtanUnit(RoundDiv(AngleScale * AngleScale, m))

\* Math.atan
Atan(t) == IF t < 0 THEN -AtanOfMagnitude(-t) ELSE AtanOfMagnitude(t)

\* degrees * (Math.PI / 180), from hundredths of a degree
DegToRad(centiDeg) == RoundDiv(centiDeg * Pi, 18000)

\* (a * b) % m for 0 <= a < m and b >= 0, by doubling
RECURSIVE MulMod(_, _, _)
MulMod(a, b, m) ==
    IF b = 0 THEN 0
    ELSE LET d == (2 * MulMod(a, b \div 2, m)) % m
         IN  IF b % 2 = 1 THEN (d + a) % m ELSE d

(***************************************************************************)
(* OrbitalMechanics                                                        *)
(***************************************************************************)
\* the largest number below 1: 1 - Number.EPSILON
OneMinusEpsilon == AngleScale - 1

\* an eccentricity given in units of 1e-4
Ecc(e4) == RoundDiv(e4 * AngleScale, 10000)

\* the variables of the loop of solveKeplerEquation; steps records every dE it computed
KeplerLoop(E) ==
    [E |-> E, i |-> 0, dE |-> 0, converged |-> FALSE, error |-> NoError, steps |-> <<>>]

\* what a call of the solver comes to: E returned, or an error thrown
KeplerOutcome(error, loop) ==
    [status |-> IF error = NoError THEN "returned" ELSE "thrown", error |-> error,
     E |-> loop.E, iterations |-> loop.i, converged |-> loop.converged, steps |-> loop.steps]

KeplerThrow(error) == KeplerOutcome(error, KeplerLoop(0))

\* the end of solveKeplerEquation without its postcondition: E is returned as it stands
KeplerReturnUnchecked(loop) == KeplerOutcome(NoError, loop)

\* the end of solveKeplerEquation: the postcondition, then the return
KeplerReturn(loop) ==
    IF ~loop.converged
    THEN KeplerOutcome("Kepler equation must converge", loop)
    ELSE KeplerOutcome(NoError, loop)

\* one pass through the body of the loop of solveKeplerEquation
NewtonRaphsonStep(M, e, tolerance, loop) ==
    LET Stepped(dE) ==
            [E |-> loop.E - dE, i |-> loop.i + 1, dE |-> dE, converged |-> Abs(dE) < tolerance,
             error |-> NoError, steps |-> Append(loop.steps, dE)]
        Divided(residual, denominator) ==
            IF ~(Abs(denominator) > 0)
            THEN [loop EXCEPT !.error = "Kepler equation denominator must not be zero"]
            ELSE Stepped(IF denominator > 0 THEN DivFix(residual, denominator)
                         ELSE DivFix(-residual, -denominator))
    IN  Divided(loop.E - MulFix(e, Sin(loop.E)) - M, AngleScale - MulFix(e, Cos(loop.E)))

RECURSIVE NewtonRaphson(_, _, _, _, _)
NewtonRaphson(M, e, tolerance, n, loop) ==
    IF n = 0 \/ loop.converged \/ loop.error # NoError THEN loop
    ELSE IF n = 1 THEN NewtonRaphsonStep(M, e, tolerance, loop)
    ELSE NewtonRaphson(M, e, tolerance, n - n \div 2,
                       NewtonRaphson(M, e, tolerance, n \div 2, loop))

\* an initial guess that is pi for every eccentricity
InitialGuessPi(M, e) == Pi

\* the initial guess for the eccentric anomaly: M, or pi above an eccentricity of 0.8
InitialGuess(M, e) == IF e > RoundDiv(8 * AngleScale, 10) THEN Pi ELSE M

\* solveKeplerEquation: meanAnomaly in hundredths of a degree, the result in radians
solveKeplerEquation(meanAnomaly, eccentricity, tolerance, maxIterations) ==
    IF ~IsFinite(meanAnomaly)
    THEN KeplerThrow(NotFiniteError(meanAnomaly,
                                    "Mean anomaly for Kepler equation must be a valid number, got NaN",
                                    "Mean anomaly for Kepler equation must be finite"))
    ELSE IF ~IsFinite(eccentricity)
    THEN KeplerThrow(NotFiniteError(eccentricity,
                                    "Eccentricity for Kepler equation must be a valid number, got NaN",
                                    "Eccentricity for Kepler equation must be finite"))
    ELSE IF ~(eccentricity >= 0 /\ eccentricity <= OneMinusEpsilon)
    THEN KeplerThrow("Eccentricity must be between 0 and 1 - Number.EPSILON")
    ELSE IF ~IsFinite(tolerance)
    THEN KeplerThrow(NotFiniteError(tolerance, "Kepler tolerance must be a valid number, got NaN",
                                    "Kepler tolerance must be finite"))
    ELSE IF ~(tolerance > 0)
    THEN KeplerThrow("Kepler tolerance must be positive (> 0)")
    ELSE IF ~IsFinite(maxIterations)
    THEN KeplerThrow(NotFiniteError(maxIterations,
                                    "Max Kepler iterations must be a valid number, got NaN",
                                    "Max Kepler iterations must be finite"))
    ELSE IF ~(maxIterations > 0)
    THEN KeplerThrow("Max Kepler iterations must be positive (> 0)")
    ELSE LET M == DegToRad(meanAnomaly)
             loop == NewtonRaphson(M, eccentricity, tolerance, maxIterations,
                                   KeplerLoop(InitialGuess(M, eccentricity)))
         IN  IF loop.error # NoError THEN KeplerOutcome(loop.error, loop)
             ELSE KeplerReturn(loop)

\* a property an object does not have
Undefined == NaN + 1

\* a value computed, or the error thrown instead
Value(v) == [error |-> NoError, value |-> v]
Thrown(error) == [error |-> error, value |-> 0]

\* trueAnomalyFromEccentric: both anomalies in radians
trueAnomalyFromEccentric(eccentricAnomaly, eccentricity) ==
    IF ~IsFinite(eccentricAnomaly)
    THEN Thrown(NotFiniteError(eccentricAnomaly, "Eccentric anomaly must be a valid number, got NaN",
                               "Eccentric anomaly must be finite"))
    ELSE IF ~IsFinite(eccentricity)
    THEN Thrown(NotFiniteError(eccentricity, "Eccentricity must be a valid number, got NaN",
                               "Eccentricity must be finite"))
    ELSE IF ~(eccentricity >= 0 /\ eccentricity <= OneMinusEpsilon)
    THEN Thrown("Eccentricity for true anomaly must be between 0 and 1 - Number.EPSILON")
    ELSE LET denominator == AngleScale - eccentricity
         IN  IF ~(denominator > 0)
             THEN Thrown("Denominator (1-e) must be positive")
             ELSE LET sqrtTerm == Sqrt(DivFix(AngleScale + eccentricity, denominator))
                      tanHalfNu == MulFix(Tan(RoundDiv(eccentricAnomaly, 2)), sqrtTerm)
                  IN  Value(2 * Atan(tanHalfNu))

\* calculateHeliocentricDistance: the distance in the unit of semiMajorAxis
calculateHeliocentricDistance(semiMajorAxis, eccentricity, trueAnomaly) ==
    IF ~IsFinite(semiMajorAxis)
    THEN Thrown(NotFiniteError(semiMajorAxis,
                               "Semi-major axis for distance must be a valid number, got NaN",
                               "Semi-major axis for distance must be finite"))
    ELSE IF ~(semiMajorAxis > 0)
    THEN Thrown("Semi-major axis for distance must be positive (> 0)")
    ELSE IF ~IsFinite(eccentricity)
    THEN Thrown(NotFiniteError(eccentricity, "Eccentricity for distance must be a valid number, got NaN",
                               "Eccentricity for distance must be finite"))
    ELSE IF ~(eccentricity >= 0 /\ eccentricity <= OneMinusEpsilon)
    THEN Thrown("Eccentricity for distance must be between 0 and 1 - Number.EPSILON")
    ELSE IF ~IsFinite(trueAnomaly)
    THEN Thrown(NotFiniteError(trueAnomaly, "True anomaly for distance must be a valid number, got NaN",
                               "True anomaly for distance must be finite"))
    ELSE LET denominator == AngleScale + MulFix(eccentricity, Cos(trueAnomaly))
         IN  IF ~(denominator > 0)
             THEN Thrown("Heliocentric distance denominator must be positive")
             ELSE LET numerator == MulFix(semiMajorAxis,
                                          AngleScale - MulFix(eccentricity, eccentricity))
                      r == DivFix(numerator, denominator)
                  IN  IF ~(r > 0)
                      THEN Thrown("Heliocentric distance must be positive (> 0)")
                      ELSE Value(r)

\* the quotient and remainder of a * b by c, for a, b >= 0 and c > 0, by doubling
RECURSIVE MulDivRem(_, _, _)
MulDivRem(a, b, c) ==
    IF b = 0 THEN <<0, 0>>
    ELSE LET h == MulDivRem(a, b \div 2, c)
             odd == IF b % 2 = 1 THEN a ELSE 0
             r == 2 * h[2] + (odd % c)
         IN  <<2 * h[1] + (odd \div c) + (r \div c), r % c>>

\* a * b / c rounded to nearest, ties to even
MulDiv(a, b, c) ==
    LET p == MulDivRem(a, b, c)
    IN  IF 2 * p[2] < c THEN p[1]
        ELSE IF 2 * p[2] > c THEN p[1] + 1
        ELSE IF p[1] % 2 = 0 THEN p[1] ELSE p[1] + 1

\* 360 / (Math.sqrt(a * a * a) * 365.25), in millionths of a degree per day
RECURSIVE SqrtAU(_)
SqrtAU(a) == IF a < 20000 THEN ISqrt(a * 100000) ELSE 2 * SqrtAU(RoundDiv(a, 4))
MeanMotionFromAxis(a) ==
    LET sqrtCube == MulDiv(a, SqrtAU(a), 100000)
    IN  MulDiv(RoundDiv(1440 * 1000000, 1461), 100000, sqrtCube)

\* (M0 + n * daysSinceEpoch) % 360 and the correction of a negative remainder:
\* M0 in hundredths of a degree, n in millionths of a degree per day, the days in quanta;
\* the sum is taken exactly, the remainder has the sign of the sum as JavaScript's % has,
\* the result is in hundredths of a degree.  The remainder of % is exact, and so below 360
\* where it is not negative; the sum of a negative remainder and 360 is rounded
CurrentMeanAnomaly(M0, n, daysSinceEpoch) ==
    LET turn == 360 * 1000000
        wholeDays == daysSinceEpoch \div QuantaPerDay
        dayFraction == daysSinceEpoch % QuantaPerDay
        head == M0 * 10000 + MulDiv(n, dayFraction, QuantaPerDay)
        negative == IF head < 0
                    THEN wholeDays < 0 \/ wholeDays <= (-head - 1) \div n
                    ELSE wholeDays < 0 /\ -wholeDays > head \div n
        floorMod == ((head % turn) + MulMod(n % turn, wholeDays % turn, turn)) % turn
        remainder == IF negative /\ floorMod # 0 THEN floorMod - turn ELSE floorMod
    IN  IF remainder < 0 THEN RoundDiv(remainder + turn, 10000)
        ELSE IF RoundDiv(remainder, 10000) < 36000 THEN RoundDiv(remainder, 10000)
        ELSE 35999

\* a position, or the error thrown instead
Position(x, y, z) == [error |-> NoError, x |-> x, y |-> y, z |-> z]
NoPosition(error) == [error |-> error, x |-> 0, y |-> 0, z |-> 0]

\* the rotation of calculatePosition, given the cosines and sines of its three angles
Rotated(x_orbital, y_orbital, cosW, sinW, cosOmega, sinOmega, cosI, sinI) ==
    Position(MulFix(x_orbital, MulFix(cosW, cosOmega) - MulFix(MulFix(sinW, sinOmega), cosI))
             + MulFix(y_orbital, -MulFix(sinW, cosOmega) - MulFix(MulFix(cosW, sinOmega), cosI)),
             MulFix(x_orbital, MulFix(cosW, sinOmega) + MulFix(MulFix(sinW, cosOmega), cosI))
             + MulFix(y_orbital, -MulFix(sinW, sinOmega) + MulFix(MulFix(cosW, cosOmega), cosI)),
             MulFix(x_orbital, MulFix(sinW, sinI)) + MulFix(y_orbital, MulFix(cosW, sinI)))

\* the rotation of the orbital-plane point to ecliptic coordinates
EclipticPosition(x_orbital, y_orbital, iRad, omegaRad, wRad) ==
    Rotated(x_orbital, y_orbital, Cos(wRad), Sin(wRad), Cos(omegaRad), Sin(omegaRad),
            Cos(iRad), Sin(iRad))

\* calculatePosition from the distance on: the position in the orbital plane, rotated
PositionAtDistance(elements, nu, r) ==
    IF r.error # NoError THEN NoPosition(r.error)
    ELSE EclipticPosition(MulFix(r.value, Cos(nu)),
                          MulFix(r.value, Sin(nu)),
                          DegToRad(elements.inclination),
                          DegToRad(elements.longitudeOfAscendingNode),
                          DegToRad(elements.argumentOfPerihelion))

\* calculatePosition from the true anomaly on
PositionAtTrueAnomaly(elements, nu) ==
    IF nu.error # NoError THEN NoPosition(nu.error)
    ELSE PositionAtDistance(elements, nu.value,
                            calculateHeliocentricDistance(elements.semiMajorAxis,
                                                          elements.eccentricity, nu.value))

\* calculatePosition from the eccentric anomaly on
PositionAtEccentricAnomaly(elements, solved) ==
    IF solved.error # NoError THEN NoPosition(solved.error)
    ELSE PositionAtTrueAnomaly(elements,
                               trueAnomalyFromEccentric(solved.E, elements.eccentricity))

\* calculatePosition from the mean motion n on
PositionWithMeanMotion(elements, jd, n) ==
    IF ~IsFinite(n)
    THEN NoPosition("Mean motion must be finite")
    ELSE IF ~(n > 0)
    THEN NoPosition("Mean motion must be positive (> 0)")
    ELSE PositionAtEccentricAnomaly(
             elements,
             solveKeplerEquation(CurrentMeanAnomaly(elements.meanAnomaly, n,
                                                    Round(jd - Days(J2000_JD))),
                                 elements.eccentricity, KEPLER_TOLERANCE, MAX_KEPLER_ITERATIONS))

\* elements.meanMotion || (360 / (Math.sqrt(a * a * a) * 365.25))
MeanMotionOf(elements) ==
    IF elements.meanMotion \in {Undefined, 0, NaN}
    THEN MeanMotionFromAxis(elements.semiMajorAxis)
    ELSE elements.meanMotion

\* the mean anomaly calculatePosition solves Kepler's equation for, where the mean motion n
\* is finite and positive
MeanAnomalyWith(elements, jd, n) ==
    IF ~IsFinite(n) \/ ~(n > 0) THEN NaN
    ELSE CurrentMeanAnomaly(elements.meanAnomaly, n, Round(jd - Days(J2000_JD)))
MeanAnomalyAt(elements, jd) == MeanAnomalyWith(elements, jd, MeanMotionOf(elements))

\* calculatePosition: the position in the unit of elements.semiMajorAxis
calculatePosition(elements, jd) ==
    LET a == elements.semiMajorAxis
        e == elements.eccentricity
    IN  IF ~IsFinite(jd)
        THEN NoPosition(NotFiniteError(jd, "Julian date for position must be a valid number, got NaN",
                                       "Julian date for position must be finite"))
        ELSE IF ~IsFinite(a)
        THEN NoPosition(NotFiniteError(a, "Semi-major axis must be a valid number, got NaN",
                                       "Semi-major axis must be finite"))
        ELSE IF ~(a > 0)
        THEN NoPosition("Semi-major axis must be positive (> 0)")
        ELSE IF ~(a >= MIN_SEMI_MAJOR_AXIS /\ (a - 1) \div 100000 < MAX_SEMI_MAJOR_AXIS)
        THEN NoPosition("Semi-major axis must be between 0.00001 and 100000")
        ELSE IF ~IsFinite(e)
        THEN NoPosition(NotFiniteError(e, "Eccentricity must be a valid number, got NaN",
                                       "Eccentricity must be finite"))
        ELSE IF ~(e >= 0 /\ e <= OneMinusEpsilon)
        THEN NoPosition("Eccentricity must be between 0 and 1 - Number.EPSILON")
        ELSE IF ~IsFinite(elements.inclination)
        THEN NoPosition(NotFiniteError(elements.inclination,
                                       "Inclination must be a valid number, got NaN",
                                       "Inclination must be finite"))
        ELSE IF ~IsFinite(elements.longitudeOfAscendingNode)
        THEN NoPosition(NotFiniteError(elements.longitudeOfAscendingNode,
                                       "Longitude of ascending node must be a valid number, got NaN",
                                       "Longitude of ascending node must be finite"))
        ELSE IF ~IsFinite(elements.argumentOfPerihelion)
        THEN NoPosition(NotFiniteError(elements.argumentOfPerihelion,
                                       "Argument of perihelion must be a valid number, got NaN",
                                       "Argument of perihelion must be finite"))
        ELSE IF ~IsFinite(elements.meanAnomaly)
        THEN NoPosition(NotFiniteError(elements.meanAnomaly,
                                       "Mean anomaly at epoch must be a valid number, got NaN",
                                       "Mean anomaly at epoch must be finite"))
        ELSE PositionWithMeanMotion(elements, jd, MeanMotionOf(elements))

\* calculateOrbitalPeriod with a year of 365 days
calculateOrbitalPeriodShortYear(semiMajorAxis) ==
    Value(Round(MulDiv(MulDiv(semiMajorAxis, SqrtAU(semiMajorAxis), 100000),
                       365 * QuantaPerDay, 100000)))

\* calculateOrbitalPeriod(semiMajorAxis): Math.sqrt(a * a * a) * 365.25 days, in quanta; the
\* cube of a semi-major axis the model holds neither overflows nor underflows
calculateOrbitalPeriod(semiMajorAxis) ==
    IF ~IsFinite(semiMajorAxis)
    THEN Thrown(NotFiniteError(semiMajorAxis,
                               "Semi-major axis for period must be a valid number, got NaN",
                               "Semi-major axis for period must be finite"))
    ELSE IF ~(semiMajorAxis > 0)
    THEN Thrown("Semi-major axis for period must be positive (> 0)")
    ELSE Value(Round(MulDiv(MulDiv(semiMajorAxis, SqrtAU(semiMajorAxis), 100000),
                            1461 * QuantaPerDay, 400000)))

(***************************************************************************)
(* OrbitalData: the element sets of the bodies the builder creates, at     *)
(* J2000.0.  Semi-major axis in 1e-5 AU, eccentricity in 1e-4, angles in   *)
(* hundredths of a degree, mean motion in millionths of a degree per day.  *)
(***************************************************************************)
Elements(a, e4, i, node, peri, M0, n) ==
    [semiMajorAxis |-> a, eccentricity |-> Ecc(e4), inclination |-> i,
     longitudeOfAscendingNode |-> node, argumentOfPerihelion |-> peri,
     meanAnomaly |-> M0, meanMotion |-> n]

PLANET_ORBITAL_DATA ==
    "mercury" :> Elements(38710, 2056, 700, 4833, 2913, 17479, 4092334) @@
    "venus" :> Elements(72334, 68, 339, 7668, 5492, 5038, 1602130) @@
    "earth" :> Elements(100000, 167, 0, -1126, 10294, 10046, 985600) @@
    "mars" :> Elements(152371, 934, 185, 4956, -7350, -455, 524021) @@
    "jupiter" :> Elements(520289, 484, 130, 10047, -8575, 3440, 83085) @@
    "saturn" :> Elements(953668, 539, 249, 11366, -2106, 4995, 33498) @@
    "uranus" :> Elements(1918916, 473, 77, 7402, 9694, 31324, 11769) @@
    "neptune" :> Elements(3006992, 86, 177, 13178, -8681, -5512, 6060)

DWARF_PLANET_ORBITAL_DATA ==
    "pluto" :> Elements(3948212, 2488, 1714, 11030, 11376, 1453, 3970) @@
    "ceres" :> Elements(276750, 760, 1059, 8033, 7360, 7737, 214000)

MOON_ORBITAL_DATA ==
    "earth.moon" :> Elements(257, 549, 515, 12508, 31815, 11537, 13176358) @@
    "mars.phobos" :> Elements(6, 151, 109, 16493, 15025, 9106, 1128844400) @@
    "mars.deimos" :> Elements(16, 3, 93, 33960, 29050, 32533, 285161800) @@
    "jupiter.io" :> Elements(282, 41, 4, 4398, 8413, 34202, 203488900) @@
    "jupiter.europa" :> Elements(449, 94, 47, 21911, 8897, 17102, 101374700) @@
    "jupiter.ganymede" :> Elements(716, 13, 18, 6355, 19242, 31754, 50317600) @@
    "jupiter.callisto" :> Elements(1259, 74, 19, 29885, 5264, 18141, 21571000) @@
    "saturn.titan" :> Elements(817, 288, 35, 16924, 18053, 12000, 22576900) @@
    "saturn.enceladus" :> Elements(159, 47, 2, 16950, 9320, 20000, 262731800) @@
    "saturn.mimas" :> Elements(124, 196, 157, 16950, 33250, 1400, 381994500) @@
    "uranus.miranda" :> Elements(87, 13, 423, 16900, 6830, 31100, 254690600) @@
    "uranus.ariel" :> Elements(128, 12, 26, 16900, 11590, 3900, 142835600) @@
    "uranus.titania" :> Elements(292, 11, 34, 16900, 28440, 2400, 41351400) @@
    "neptune.triton" :> Elements(237, 0, 15689, 17761, 34405, 26477, 61257200) @@
    "pluto.charon" :> Elements(13, 2, 0, 22305, 0, 0, 56362500)

\* the three tables as the source gives them
OrbitalData ==
    [planets |-> PLANET_ORBITAL_DATA, dwarfPlanets |-> DWARF_PLANET_ORBITAL_DATA,
     moons |-> MOON_ORBITAL_DATA]

(***************************************************************************)
(* A call of the solver                                                    *)
(***************************************************************************)
KeplerCall(meanAnomaly, eccentricity, tolerance, maxIterations, called, outcome) ==
    [meanAnomaly |-> meanAnomaly, eccentricity |-> eccentricity, tolerance |-> tolerance,
     maxIterations |-> maxIterations, called |-> called, outcome |-> outcome]

\* no call has been made
NoKeplerCall == KeplerCall(0, 0, 0, 0, FALSE, KeplerOutcome(NoError, KeplerLoop(0)))

\* the call comes back: solveKeplerEquation(meanAnomaly, eccentricity, tolerance, maxIterations)
SolveKepler ==
    /\ ~kepler.called
    /\ kepler' = [kepler EXCEPT !.called = TRUE,
                                !.outcome = solveKeplerEquation(kepler.meanAnomaly,
                                                                kepler.eccentricity,
                                                                kepler.tolerance,
                                                                kepler.maxIterations)]

(***************************************************************************)
(* CelestialBody                                                           *)
(***************************************************************************)
\* the type tags a body can have
VALID_BODY_TYPES == {"star", "planet", "dwarf_planet", "moon", "asteroid", "comet", "spacecraft"}
\* a body that orbits nothing the model holds
NoParent == "none"
\* the element set of a body that has none: never read
NoElements == Elements(0, 0, 0, 0, 0, 0, 0)

\* new CelestialBody(config): the fields the simulation reads
Body(name, hasOrbitalElements, orbitalElements, parentBody) ==
    [name |-> name, hasOrbitalElements |-> hasOrbitalElements,
     orbitalElements |-> orbitalElements, parentBody |-> parentBody]

\* new THREE.Group().position
Origin == <<0, 0, 0>>

\* the point of the orbit line at segment i: calculatePosition({...elements, meanAnomaly}, 0)
OrbitPoint(elements, i) ==
    calculatePosition([elements EXCEPT !.meanAnomaly = RoundDiv(i * 36000, OrbitSegments)], 0)

\* createOrbitLine(): the points are calculated one after the other; the error of the first
\* that cannot be, or NoError when the line is made
RECURSIVE OrbitLineFrom(_, _)
OrbitLineAfter(elements, i, error) ==
    IF error # NoError THEN error ELSE OrbitLineFrom(elements, i + 1)
OrbitLineFrom(elements, i) ==
    IF i > OrbitSegments THEN NoError
    ELSE OrbitLineAfter(elements, i, OrbitPoint(elements, i).error)
createOrbitLine(body) == OrbitLineFrom(body.orbitalElements, 0)

\* init(): the mesh is created, and the orbit line if the body has orbital elements; the
\* error it throws, or NoError
init(body) == IF body.hasOrbitalElements THEN createOrbitLine(body) ELSE NoError

\* a configuration handed to a constructor: rotationPeriod in hundredths of an hour or
\* Undefined, axialTilt in hundredths of a degree or Undefined, tidallyLocked <<b>> for the
\* boolean b or <<>> for undefined
Config(class, name, radius, rotationPeriod, axialTilt, hasOrbitalElements, orbitalElements, parentBody, tidallyLocked) ==
    [class |-> class, name |-> name, radius |-> radius, rotationPeriod |-> rotationPeriod,
     axialTilt |-> axialTilt,
     hasOrbitalElements |-> hasOrbitalElements, orbitalElements |-> orbitalElements,
     parentBody |-> parentBody, tidallyLocked |-> tidallyLocked]

\* what a constructor comes to: the body made, or the error thrown
NoBody == Body("", FALSE, NoElements, NoParent)
    @@ [type |-> "", radius |-> 0, rotationPeriod |-> 0, axialTilt |-> 0, tidallyLocked |-> FALSE]
Constructed(body) == [error |-> NoError, body |-> body]
NotConstructed(error) == [error |-> error, body |-> NoBody]

\* assertPositive(value, name): the error it throws, or NoError
assertPositive(value, nanMessage, infMessage, message) ==
    IF ~IsFinite(value) THEN NotFiniteError(value, nanMessage, infMessage)
    ELSE IF ~(value > 0) THEN message
    ELSE NoError

\* new CelestialBody(config) for a subclass: type is the type tag the subclass passes,
\* tidallyLocked what the subclass keeps
CelestialBodyConstructor(type, config, tidallyLocked) ==
    IF config.name = ""
    THEN NotConstructed("Celestial body name must not be empty")
    ELSE IF type \notin VALID_BODY_TYPES
    THEN NotConstructed("Celestial body type must be valid")
    ELSE IF assertPositive(config.radius, "radius must be a valid number, got NaN",
                           "radius must be finite", "radius must be positive (> 0)") # NoError
    THEN NotConstructed(assertPositive(config.radius, "radius must be a valid number, got NaN",
                                       "radius must be finite", "radius must be positive (> 0)"))
    ELSE IF config.rotationPeriod # Undefined /\ config.rotationPeriod = 0
    THEN NotConstructed("rotation period must be non-zero")
    ELSE IF config.rotationPeriod # Undefined /\ ~IsFinite(config.rotationPeriod)
    THEN NotConstructed(NotFiniteError(config.rotationPeriod,
                                       "rotation period must be a valid number, got NaN",
                                       "rotation period must be finite"))
    ELSE Constructed(Body(config.name, config.hasOrbitalElements, config.orbitalElements,
                          config.parentBody)
                     @@ [type |-> type,
                         radius |-> config.radius,
                         rotationPeriod |-> IF config.rotationPeriod = Undefined THEN 0
                                            ELSE config.rotationPeriod,
                         axialTilt |-> IF config.axialTilt \in {Undefined, 0, NaN} THEN 0
                                       ELSE config.axialTilt,
                         tidallyLocked |-> tidallyLocked])

\* new Sun(): the configuration is made of SUN_DATA, here config
SunConstructor(config) ==
    IF assertPositive(config.radius, "SUN_DATA.radius must be a valid number, got NaN",
                      "SUN_DATA.radius must be finite",
                      "SUN_DATA.radius must be positive (> 0)") # NoError
    THEN NotConstructed(assertPositive(config.radius,
                                       "SUN_DATA.radius must be a valid number, got NaN",
                                       "SUN_DATA.radius must be finite",
                                       "SUN_DATA.radius must be positive (> 0)"))
    ELSE CelestialBodyConstructor("star",
                                  [config EXCEPT !.name = "Sun", !.hasOrbitalElements = FALSE,
                                                 !.parentBody = NoParent],
                                  FALSE)

\* new Planet(config): rotationPeriod is config.physicalData.rotationPeriod
PlanetConstructor(config) ==
    IF config.name = ""
    THEN NotConstructed("Planet name must not be empty")
    ELSE IF assertPositive(config.radius, "Planet radius must be a valid number, got NaN",
                           "Planet radius must be finite",
                           "Planet radius must be positive (> 0)") # NoError
    THEN NotConstructed(assertPositive(config.radius,
                                       "Planet radius must be a valid number, got NaN",
                                       "Planet radius must be finite",
                                       "Planet radius must be positive (> 0)"))
    ELSE IF ~config.hasOrbitalElements
    THEN NotConstructed("Planet must have orbital elements")
    ELSE CelestialBodyConstructor("planet", [config EXCEPT !.parentBody = NoParent], FALSE)

\* new Moon(config): a rotationPeriod that is undefined, 0 or NaN is not passed on
MoonConstructor(config) ==
    IF config.name = ""
    THEN NotConstructed("Moon name must not be empty")
    ELSE IF assertPositive(config.radius, "Moon radius must be a valid number, got NaN",
                           "Moon radius must be finite",
                           "Moon radius must be positive (> 0)") # NoError
    THEN NotConstructed(assertPositive(config.radius,
                                       "Moon radius must be a valid number, got NaN",
                                       "Moon radius must be finite",
                                       "Moon radius must be positive (> 0)"))
    ELSE IF ~config.hasOrbitalElements
    THEN NotConstructed("Moon must have orbital elements")
    ELSE IF config.parentBody = NoParent
    THEN NotConstructed("Moon must have a parent body")
    ELSE CelestialBodyConstructor(
             "moon",
             [config EXCEPT !.rotationPeriod =
                                IF config.rotationPeriod \in {Undefined, 0, NaN}
                                THEN Undefined ELSE config.rotationPeriod],
             IF config.tidallyLocked = <<>> THEN TRUE ELSE config.tidallyLocked[1])

\* new Sun(), new Planet(config) or new Moon(config), as the configuration asks
New(config) ==
    IF config.class = "Sun" THEN SunConstructor(config)
    ELSE IF config.class = "Planet" THEN PlanetConstructor(config)
    ELSE MoonConstructor(config)

(***************************************************************************)
(* An orbit evaluated on its own                                            *)
(***************************************************************************)
\* an evaluation of an orbit and of the same orbit one period later: the elements and the
\* instant, how far it has come ("elements", "period", "first", "second"), what
\* calculateOrbitalPeriod returned, the mean anomaly and the position at the instant, and
\* those one period later
Orbit(elements, jd) ==
    [elements |-> elements, jd |-> jd, stage |-> "elements", period |-> Thrown(NoError),
     M |-> 0, position |-> NoPosition(NoError), laterM |-> 0,
     laterPosition |-> NoPosition(NoError)]

\* no orbit is evaluated
NoOrbit == orbit = [Orbit(NoElements, 0) EXCEPT !.stage = "none"]

\* calculateOrbitalPeriod(elements.semiMajorAxis)
Period ==
    /\ orbit.stage = "elements"
    /\ orbit' = [orbit EXCEPT !.stage = "period",
                              !.period = calculateOrbitalPeriod(orbit.elements.semiMajorAxis)]

\* calculatePosition(elements, t)
EvaluateAt ==
    /\ orbit.stage = "period"
    /\ orbit.period.error = NoError
    /\ orbit' = [orbit EXCEPT !.stage = "first",
                              !.M = MeanAnomalyAt(orbit.elements, orbit.jd),
                              !.position = calculatePosition(orbit.elements, orbit.jd)]

\* calculatePosition(elements, t + calculateOrbitalPeriod(a))
EvaluateLater ==
    /\ orbit.stage = "first"
    /\ orbit' = [orbit EXCEPT !.stage = "second",
                              !.laterM = MeanAnomalyAt(orbit.elements,
                                                       FAdd(orbit.jd, orbit.period.value)),
                              !.laterPosition =
                                  calculatePosition(orbit.elements,
                                                    FAdd(orbit.jd, orbit.period.value))]

(***************************************************************************)
(* SolarSystemBuilder.build                                                *)
(***************************************************************************)
\* PLANET_PHYSICAL_DATA[name].name
PlanetDisplayName ==
    "mercury" :> "Mercury" @@ "venus" :> "Venus" @@ "earth" :> "Earth" @@ "mars" :> "Mars" @@
    "jupiter" :> "Jupiter" @@ "saturn" :> "Saturn" @@ "uranus" :> "Uranus" @@
    "neptune" :> "Neptune"

planetNames ==
    <<"mercury", "venus", "earth", "mars", "jupiter", "saturn", "uranus", "neptune">>

\* what each step of build() pushes on allBodies
createSun == <<Body("Sun", FALSE, NoElements, NoParent)>>

createPlanet(data, name) ==
    <<Body(PlanetDisplayName[name], TRUE, data.planets[name], NoParent)>>

createMoon(name, orbitalElements, parent) == Body(name, TRUE, orbitalElements, parent)

createMoons(data) ==
    <<createMoon("Moon", data.moons["earth.moon"], "Earth"),
      createMoon("Phobos", data.moons["mars.phobos"], "Mars"),
      createMoon("Deimos", data.moons["mars.deimos"], "Mars"),
      createMoon("Io", data.moons["jupiter.io"], "Jupiter"),
      createMoon("Europa", data.moons["jupiter.europa"], "Jupiter"),
      createMoon("Ganymede", data.moons["jupiter.ganymede"], "Jupiter"),
      createMoon("Callisto", data.moons["jupiter.callisto"], "Jupiter"),
      createMoon("Titan", data.moons["saturn.titan"], "Saturn"),
      createMoon("Enceladus", data.moons["saturn.enceladus"], "Saturn"),
      createMoon("Mimas", data.moons["saturn.mimas"], "Saturn"),
      createMoon("Miranda", data.moons["uranus.miranda"], "Uranus"),
      createMoon("Ariel", data.moons["uranus.ariel"], "Uranus"),
      createMoon("Titania", data.moons["uranus.titania"], "Uranus"),
      createMoon("Triton", data.moons["neptune.triton"], "Neptune")>>

createDwarfPlanets(data) ==
    <<Body("Pluto", TRUE, data.dwarfPlanets["pluto"], NoParent),
      createMoon("Charon", data.moons["pluto.charon"], "Pluto"),
      Body("Ceres", TRUE, data.dwarfPlanets["ceres"], NoParent)>>

RECURSIVE createPlanets(_, _)
createPlanets(data, k) ==
    IF k > Len(planetNames) THEN <<>>
    ELSE createPlanet(data, planetNames[k]) \o createPlanets(data, k + 1)

\* what a call of build() comes to: the error it threw or NoError, and allBodies as it left it
Built(error, bodies) == [error |-> error, allBodies |-> bodies]

\* the bodies are created in the order given: each is constructed, initialised and pushed,
\* and the first init() that throws ends build(); failing are the places of the bodies
\* whose init() throws
First(places) == CHOOSE k \in places : \A j \in places : k <= j
AssembledUntil(bodies, failing) ==
    IF failing = {} THEN Built(NoError, bodies)
    ELSE Built(init(bodies[First(failing)]), SubSeq(bodies, 1, First(failing) - 1))
Assembled(bodies) ==
    AssembledUntil(bodies, {k \in DOMAIN bodies : init(bodies[k]) # NoError})

\* build() with the moons created before the planets they orbit
buildMoonsFirst(data) ==
    Assembled(createSun \o createMoons(data) \o createPlanets(data, 1)
                  \o createDwarfPlanets(data))

\* SolarSystemBuilder.build() reading the tables data
build(data) ==
    Assembled(createSun \o createPlanets(data, 1) \o createMoons(data)
                  \o createDwarfPlanets(data))

(***************************************************************************)
(* The calls the application makes, and the positions they can ask for     *)
(***************************************************************************)
\* clock.getDelta(): the seconds since the frame before
FrameDeltas == {0, 1, 2, -1} \cup NonFinite
\* the speeds the time controls offer, of [1, 10, 100, 1000, 10000, 100000, 1000000]
SpeedPresets == {1, 1000000}
\* new Date() when the application is constructed and when the user jumps to now
AppNowDates == NowDates \cup {UTCDate(2026, 11, 17, 0, 0, 0)}

\* the dates the clock can show after at most k seconds of frames
RECURSIVE DatesWithin(_)
DatesWithin(k) ==
    IF k = 0 THEN {dateToJulian(now) : now \in AppNowDates}
    ELSE LET before == DatesWithin(k - 1)
         IN  before \cup {FAdd(jd, DeltaDays(d, sign * speed)) :
                             jd \in before, d \in {f \in FrameDeltas : IsFinite(f) /\ f >= 0 /\ f <= MAX_DELTA_TIME},
                             sign \in {-1, 1}, speed \in SpeedPresets}

ClockDates == DatesWithin(MaxSimSeconds)

\* the element sets of the bodies build() creates
OrbitingElements ==
    {body.orbitalElements :
        body \in {b \in {build(OrbitalData).allBodies[k] :
                              k \in DOMAIN build(OrbitalData).allBodies} : b.hasOrbitalElements}}

\* calculatePosition for each of those bodies at each of those dates, computed once
PositionTable ==
    [elements \in OrbitingElements |-> [jd \in ClockDates |-> calculatePosition(elements, jd)]]

(***************************************************************************)
(* CelestialBody.update                                                    *)
(***************************************************************************)
\* the factor by which update() scales the orbital offset of a body, as the planets' is scaled
OrbitScaleOfPlanets(hasParent) == SCALE_FACTOR

\* the factor by which update() scales the orbital offset of a body
OrbitScale(hasParent) ==
    IF hasParent THEN SCALE_FACTOR * MOON_ORBIT_SCALE ELSE SCALE_FACTOR

\* floating-point multiplication
FMul(a, b) == Round(a * b)

\* the world of the bodies: where each one is, and the history of how that came about
World(pos, computed, seen, error) ==
    [position |-> pos, computedFor |-> computed, parentSeenFor |-> seen, error |-> error]

\* the world as a pass over the bodies finds it: no body has been updated in the pass yet
NewPass(pos) ==
    World(pos, [name \in DOMAIN pos |-> Undefined], [name \in DOMAIN pos |-> Undefined], NoError)

\* calculatePosition(elements, jd): looked up where the table holds it, computed otherwise
Calculated(table, elements, jd) ==
    IF elements \in DOMAIN table /\ jd \in DOMAIN table[elements]
    THEN table[elements][jd]
    ELSE calculatePosition(elements, jd)

\* calculatePosition(this.orbitalElements, julianDate)
LocalPosition(body, jd) == Calculated(PositionTable, body.orbitalElements, jd)

\* the rest of update() once the local position is calculated: the body is placed
PlaceBody(w, body, jd, local) ==
    IF local.error # NoError THEN [w EXCEPT !.error = local.error]
    ELSE [w EXCEPT !.position[body.name] =
                       [k \in 1..3 |->
                           IF body.parentBody # NoParent
                           THEN FAdd(w.position[body.parentBody][k],
                                     FMul(<<local.x, local.y, local.z>>[k], OrbitScale(TRUE)))
                           ELSE FMul(<<local.x, local.y, local.z>>[k], OrbitScale(FALSE))],
                   !.computedFor[body.name] = jd,
                   !.parentSeenFor[body.name] =
                       IF body.parentBody # NoParent
                       THEN w.computedFor[body.parentBody]
                       ELSE Undefined]

\* CelestialBody.update(julianDate, deltaTime, timeScale) on the body in the world w
CelestialBodyUpdate(w, body, jd, deltaTime, scale) ==
    IF ~IsFinite(jd)
    THEN [w EXCEPT !.error = NotFiniteError(jd, "Julian date must be a valid number, got NaN",
                                            "Julian date must be finite")]
    ELSE IF ~IsFinite(deltaTime)
    THEN [w EXCEPT !.error = NotFiniteError(deltaTime, "delta time must be a valid number, got NaN",
                                            "delta time must be finite")]
    ELSE IF deltaTime < 0
    THEN [w EXCEPT !.error = "delta time must be non-negative (>= 0)"]
    ELSE IF ~IsFinite(scale)
    THEN [w EXCEPT !.error = NotFiniteError(scale, "time scale must be a valid number, got NaN",
                                            "time scale must be finite")]
    ELSE IF ~body.hasOrbitalElements THEN w
    ELSE PlaceBody(w, body, jd, LocalPosition(body, jd))

(***************************************************************************)
(* Two bodies on their own                                                 *)
(***************************************************************************)
\* a body to be: its configuration, how far it has come ("configured", "not constructed",
\* "constructed", "initialised", "init failed"), the error the call made last on it threw,
\* the body constructed, whether this.mesh is set, mesh.rotation.y in units of
\* 1/AngleScale radian, the eye and the target of the lookAt whose orientation
\* mesh.quaternion was interpolated toward last, and group.position
Subject(config) ==
    [config |-> config, stage |-> "configured", error |-> NoError, body |-> NoBody,
     mesh |-> FALSE, tilt |-> 0, spin |-> 0, lookedAt |-> <<>>, quaternion |-> <<>>,
     position |-> Origin]

\* no body is held on its own
NoSubjects == subjects = <<>> /\ calls = <<>>

\* parentBody.getPosition() of the planet a moon on its own is given: it is never updated
ParentPosition == Origin

\* the subject after new Sun(), new Planet(config) or new Moon(config) came to made
Made(subject, made) ==
    IF made.error # NoError
    THEN [subject EXCEPT !.stage = "not constructed", !.error = made.error]
    ELSE [subject EXCEPT !.stage = "constructed", !.error = NoError, !.body = made.body]

\* an init() that samples the orbit line on the elements of the body, not on a copy: the
\* mean anomaly of the last sample is left in them
InitialisedInPlace(subject, error) ==
    [subject EXCEPT !.stage = IF error # NoError THEN "init failed" ELSE "initialised",
                    !.error = error, !.mesh = TRUE,
                    !.tilt = IF subject.body.axialTilt # 0 THEN DegToRad(subject.body.axialTilt)
                             ELSE @,
                    !.body.orbitalElements.meanAnomaly =
                        IF subject.body.hasOrbitalElements /\ error = NoError THEN 36000 ELSE @]

\* the subject after init() came to error: createMesh() has set this.mesh and the axial tilt,
\* if there is one, has turned the group before the orbit line is made
Initialised(subject, error) ==
    [subject EXCEPT !.stage = IF error # NoError THEN "init failed" ELSE "initialised",
                    !.error = error, !.mesh = TRUE,
                    !.tilt = IF subject.body.axialTilt # 0 THEN DegToRad(subject.body.axialTilt)
                             ELSE @]

\* the world a body on its own is updated in
WorldOf(subject) ==
    NewPass(IF subject.body.parentBody # NoParent
            THEN (subject.body.name :> subject.position)
                     @@ (subject.body.parentBody :> ParentPosition)
            ELSE (subject.body.name :> subject.position))

\* radiansPerSecond * deltaTime * timeScale with radiansPerSecond (1 / 3600) / rotationPeriod
\* * 2 * Math.PI: the rotation period in hundredths of an hour, the product rounded once
RotationDelta(rotationPeriod, deltaTime, scale) ==
    (IF (scale < 0) # (rotationPeriod < 0) THEN -1 ELSE 1)
        * MulDiv(TwoPi * deltaTime, Abs(scale), 36 * Abs(rotationPeriod))

\* this.mesh.rotation.y += rotationDelta, and the reset of a rotation that is not finite
RotationAfter(rotation, rotationDelta) ==
    IF ~IsFinite(FAdd(rotation, rotationDelta)) THEN 0 ELSE FAdd(rotation, rotationDelta)

\* the rotation step of CelestialBody.update
Spun(subject, deltaTime, scale) ==
    IF subject.mesh /\ subject.body.rotationPeriod # 0
    THEN [subject EXCEPT !.spin =
                             RotationAfter(@, RotationDelta(subject.body.rotationPeriod,
                                                            deltaTime, scale))]
    ELSE subject

\* CelestialBody.update once the position step left the world w: its error is thrown, or the
\* body is where w has it and the rotation step follows
SpunIn(subject, w, deltaTime, scale) ==
    IF w.error # NoError THEN [subject EXCEPT !.error = w.error]
    ELSE Spun([subject EXCEPT !.error = NoError, !.position = w.position[subject.body.name]],
              deltaTime, scale)

\* super.update(julianDate, deltaTime, timeScale)
SuperUpdate(subject, jd, deltaTime, scale) ==
    SpunIn(subject, CelestialBodyUpdate(WorldOf(subject), subject.body, jd, deltaTime, scale),
           deltaTime, scale)

\* 0.0001 * deltaTime * timeScale
SunRotationDelta(deltaTime, scale) ==
    (IF scale < 0 THEN -1 ELSE 1) * MulDiv(AngleScale * deltaTime, Abs(scale), 10000)

\* Sun.update after super.update left the subject: the mesh is rotated once more
SunSpun(subject, deltaTime, scale) ==
    IF subject.error # NoError \/ ~subject.mesh THEN subject
    ELSE [subject EXCEPT !.spin = FAdd(@, SunRotationDelta(deltaTime, scale))]

\* this.parentBody.getPosition() of a body on its own: its own position where it was made
\* its own parent
ParentPositionOf(subject) ==
    IF subject.body.parentBody = subject.body.name THEN subject.position ELSE ParentPosition

\* new THREE.Matrix4().lookAt(eye, target, up) with up the y axis is the identity: its z axis
\* runs from the target to the eye, and is (0, 0, 1) where the two are the same point
LookAtIsIdentity(eye, target) ==
    eye = target \/ (eye[1] = target[1] /\ eye[2] = target[2] /\ eye[3] > target[3])

\* mesh.quaternion.slerp(quaternion, 0.1) with the quaternion of lookAt(eye, target, up): an
\* orientation is the identity (<<>>) turned a tenth of the way toward one lookAt after the
\* other; a slerp toward the orientation the mesh has changes nothing
Slerp(orientation, eye, target) ==
    IF orientation = <<>> /\ LookAtIsIdentity(eye, target) THEN orientation
    ELSE Append(orientation, <<eye, target>>)

\* Moon.update after super.update left the subject: the mesh of a tidally locked moon is
\* turned toward the orientation of lookAt(moonPos, parentPos, up)
Locked(subject) ==
    IF subject.error # NoError \/ ~subject.body.tidallyLocked
       \/ subject.body.parentBody = NoParent \/ ~subject.mesh
    THEN subject
    ELSE [subject EXCEPT !.lookedAt = <<subject.position, ParentPositionOf(subject)>>,
                         !.quaternion = Slerp(@, subject.position, ParentPositionOf(subject))]

\* update(julianDate, deltaTime, timeScale) of the class of the body; what Planet.update
\* adds turns the clouds only
SubjectUpdate(subject, jd, deltaTime, scale) ==
    IF subject.config.class = "Sun"
    THEN SunSpun(SuperUpdate(subject, jd, deltaTime, scale), deltaTime, scale)
    ELSE IF subject.config.class = "Moon"
    THEN Locked(SuperUpdate(subject, jd, deltaTime, scale))
    ELSE SuperUpdate(subject, jd, deltaTime, scale)

\* new Sun(), new Planet(config) or new Moon(config) for the k-th of the two
Construct(k) ==
    /\ subjects[k].stage = "configured"
    /\ subjects' = [subjects EXCEPT ![k] = Made(@, New(@.config))]
    /\ UNCHANGED calls

\* init() of the k-th of the two
InitBody(k) ==
    /\ subjects[k].stage = "constructed"
    /\ subjects' = [subjects EXCEPT ![k] = Initialised(@, init(@.body))]
    /\ UNCHANGED calls

\* update(julianDate, deltaTime, timeScale) of each of the two that was constructed, once
\* init() was called on it, as the loop of SolarSystemBuilder.update calls it on the bodies
UpdateBoth(jd, deltaTime, scale) ==
    /\ Len(calls) < MaxUpdates
    /\ \A k \in DOMAIN subjects : subjects[k].stage \notin {"configured", "constructed"}
    /\ \E k \in DOMAIN subjects : subjects[k].stage = "initialised"
    /\ subjects' = [k \in DOMAIN subjects |->
                       IF subjects[k].stage = "not constructed" THEN subjects[k]
                       ELSE SubjectUpdate(subjects[k], jd, deltaTime, scale)]
    /\ calls' = Append(calls, <<jd, deltaTime, scale>>)

\* moon.parentBody = moon: the field is public and may be assigned
AssignParentBody(k) ==
    /\ subjects[k].stage = "initialised"
    /\ subjects[k].config.class = "Moon"
    /\ subjects[k].body.parentBody # subjects[k].body.name
    /\ subjects' = [subjects EXCEPT ![k].body.parentBody = subjects[k].body.name]
    /\ UNCHANGED calls

(***************************************************************************)
(* SolarSystemBuilder.update                                               *)
(***************************************************************************)
\* the body the loop of update() visits at its k-th turn, were it to run from the back
BodyVisitedBackwards(bodies, k) == bodies[Len(bodies) + 1 - k]

\* the body the loop of update() visits at its k-th turn: for (const body of this.allBodies)
BodyVisited(bodies, k) == bodies[k]

\* the loop of SolarSystemBuilder.update from its k-th turn on; a throw ends it
RECURSIVE UpdateBodies(_, _, _, _, _, _)
UpdateBodies(w, bodies, k, jd, delta, scale) ==
    IF k > Len(bodies) \/ w.error # NoError THEN w
    ELSE UpdateBodies(CelestialBodyUpdate(w, BodyVisited(bodies, k), jd, delta, scale),
                      bodies, k + 1, jd, delta, scale)

\* SolarSystemBuilder.update(julianDate, delta, timeScale) on the world w; the ring systems
\* it then updates hold nothing the model keeps
SolarSystemUpdate(w, bodies, jd, delta, scale) ==
    IF ~IsFinite(jd)
    THEN [w EXCEPT !.error = NotFiniteError(jd, "Julian date must be a valid number, got NaN",
                                            "Julian date must be finite")]
    ELSE IF ~IsFinite(delta)
    THEN [w EXCEPT !.error = NotFiniteError(delta, "Delta time must be a valid number, got NaN",
                                            "Delta time must be finite")]
    ELSE IF delta < 0
    THEN [w EXCEPT !.error = "Delta time must be non-negative (>= 0)"]
    ELSE IF ~IsFinite(scale)
    THEN [w EXCEPT !.error = NotFiniteError(scale, "Time scale must be a valid number, got NaN",
                                            "Time scale must be finite")]
    ELSE IF ~(Len(bodies) <= MAX_BODIES)
    THEN [w EXCEPT !.error = "Body count exceeds maximum during update"]
    ELSE UpdateBodies(w, bodies, 1, jd, delta, scale)

(***************************************************************************)
(* CosmosApp                                                               *)
(***************************************************************************)
\* new CosmosApp(container)
AppConstructed ==
    /\ isInitialized = FALSE
    /\ isRunning = FALSE
    /\ frameId = 0
    /\ pendingFrames = {}
    /\ allBodies = <<>>
    /\ position = <<>>
    /\ computedFor = <<>>
    /\ parentSeenFor = <<>>
    /\ appOp = "constructor"
    /\ appError = NoError
    /\ passDates = <<>>

bodyVars == <<position, computedFor, parentSeenFor>>

\* the handle requestAnimationFrame returns: one that no frame still requested has
NewHandle(pending) ==
    CHOOSE h \in 1..(Cardinality(pending) + 1) :
        h \notin pending /\ \A g \in 1..(h - 1) : g \in pending

\* what a call of CosmosApp comes to
Outcome(op, error) == appOp' = op /\ appError' = error

\* the pass over the bodies left the world w
Moved(w) ==
    /\ position' = w.position
    /\ computedFor' = w.computedFor
    /\ parentSeenFor' = w.parentSeenFor
    /\ appError' = w.error

\* the pass left the world w, and the simulation was stepped after it
MovedFirst(w) ==
    /\ position' = w.position
    /\ computedFor' = w.computedFor
    /\ parentSeenFor' = w.parentSeenFor
    /\ appError' = IF lastError' # NoError THEN lastError' ELSE w.error

\* animate() with the simulation stepped only after the bodies were moved
AnimateBodiesFirst(delta, pending) ==
    LET handle == NewHandle(pending)
    IN  /\ appOp' = "animate"
        /\ frameId' = handle
        /\ pendingFrames' = pending \cup {handle}
        /\ UNCHANGED <<isInitialized, orbitalData, allBodies, kepler, soloVars>>
        /\ IF delta < 0 \/ delta > MAX_DELTA_TIME
           THEN /\ appError' = "Frame delta time exceeds maximum"
                /\ passDates' = <<>>
                /\ UNCHANGED <<timeVars, callVars, bodyVars>>
           ELSE /\ Update(delta)
                /\ MovedFirst(SolarSystemUpdate(
                                  NewPass(position),
                                  allBodies, julianDate, delta, timeScale))
                /\ passDates' = <<julianDate>>

\* animate() handing whatever the clock measured to the TimeController and to the bodies
AnimateAnyDelta(delta, pending) ==
    LET handle == NewHandle(pending)
    IN  /\ appOp' = "animate"
        /\ frameId' = handle
        /\ pendingFrames' = pending \cup {handle}
        /\ UNCHANGED <<isInitialized, orbitalData, allBodies, kepler, soloVars>>
        /\ Update(delta)
        /\ IF lastError' # NoError
           THEN /\ appError' = lastError'
                /\ passDates' = <<>>
                /\ UNCHANGED bodyVars
           ELSE /\ Moved(SolarSystemUpdate(
                             NewPass(position),
                             allBodies, julianDate', delta, timeScale'))
                /\ passDates' = <<julianDate'>>

\* CosmosApp.animate() while running, the frames in `pending` being still requested and
\* clock.getDelta() returning delta
Animate(delta, pending) ==
    LET handle == NewHandle(pending)
    IN  /\ appOp' = "animate"
        /\ frameId' = handle
        /\ pendingFrames' = pending \cup {handle}
        /\ UNCHANGED <<isInitialized, orbitalData, allBodies, kepler, soloVars>>
        /\ IF ~IsFinite(delta)
           THEN /\ appError' = NotFiniteError(delta,
                                              "Frame delta time must be a valid number, got NaN",
                                              "Frame delta time must be finite")
                /\ passDates' = <<>>
                /\ UNCHANGED <<timeVars, callVars, bodyVars>>
           ELSE IF delta < 0
           THEN /\ appError' = "Frame delta time must be non-negative (>= 0)"
                /\ passDates' = <<>>
                /\ UNCHANGED <<timeVars, callVars, bodyVars>>
           ELSE IF ~(delta <= MAX_DELTA_TIME)
           THEN /\ appError' = "Frame delta time exceeds maximum"
                /\ passDates' = <<>>
                /\ UNCHANGED <<timeVars, callVars, bodyVars>>
           ELSE /\ Update(delta)
                /\ IF lastError' # NoError
                   THEN /\ appError' = lastError'
                        /\ passDates' = <<>>
                        /\ UNCHANGED bodyVars
                   ELSE IF ~IsFinite(julianDate')
                   THEN /\ appError' = NotFiniteError(julianDate',
                                                      "Julian date must be a valid number, got NaN",
                                                      "Julian date must be finite")
                        /\ passDates' = <<>>
                        /\ UNCHANGED bodyVars
                   ELSE IF ~IsFinite(timeScale')
                   THEN /\ appError' = NotFiniteError(timeScale',
                                                      "Time scale must be a valid number, got NaN",
                                                      "Time scale must be finite")
                        /\ passDates' = <<>>
                        /\ UNCHANGED bodyVars
                   ELSE /\ Moved(SolarSystemUpdate(
                                     NewPass(position),
                                     allBodies, julianDate', delta, timeScale'))
                        /\ passDates' = <<julianDate'>>

\* CosmosApp.init(): the scene, the solar system and the user interface are set up; the
\* program makes the call once and waits for it before it starts the loop
InitApp ==
    /\ appOp' = "init"
    /\ passDates' = <<>>
    /\ UNCHANGED <<julianDate, timeScale, isPaused, accumulatedTime, callVars, kepler, soloVars,
                   isRunning, frameId, pendingFrames, orbitalData>>
    /\ IF isInitialized
       THEN /\ appError' = "Cannot initialize: already initialized"
            /\ UNCHANGED <<listeners, isInitialized, allBodies, bodyVars>>
       ELSE IF isRunning
       THEN /\ appError' = "Cannot initialize while running"
            /\ UNCHANGED <<listeners, isInitialized, allBodies, bodyVars>>
       ELSE LET Names(bodies) == {bodies[k].name : k \in DOMAIN bodies}
                BuildReturned(built) ==
                    /\ allBodies' = built.allBodies
                    /\ position' = [name \in Names(built.allBodies) |-> Origin]
                    /\ computedFor' = [name \in Names(built.allBodies) |-> Undefined]
                    /\ parentSeenFor' = [name \in Names(built.allBodies) |-> Undefined]
                    /\ IF built.error # NoError
                       THEN /\ appError' = built.error
                            /\ UNCHANGED <<listeners, isInitialized>>
                       ELSE IF ~(Len(built.allBodies) > 0)
                       THEN /\ appError' = "Solar system must have at least one body (the Sun)"
                            /\ UNCHANGED <<listeners, isInitialized>>
                       ELSE IF ~(Len(built.allBodies) <= MAX_CELESTIAL_BODIES)
                       THEN /\ appError' = "Solar system body count exceeds expected maximum"
                            /\ UNCHANGED <<listeners, isInitialized>>
                       ELSE /\ appError' = NoError
                            /\ listeners' = listeners \cup Listeners
                            /\ isInitialized' = TRUE
            IN  BuildReturned(build(orbitalData))

\* CosmosApp.start(): the first animate() runs inside the call, the clock just started
Start ==
    IF ~isInitialized
    THEN /\ Outcome("start", "Cannot start: not initialized. Call init() first.")
         /\ passDates' = <<>>
         /\ UNCHANGED <<timeVars, callVars, kepler, soloVars, isInitialized, isRunning, frameId,
                        pendingFrames, orbitalData, allBodies, bodyVars>>
    ELSE IF isRunning
    THEN /\ Outcome("start", NoError)
         /\ passDates' = <<>>
         /\ UNCHANGED <<timeVars, callVars, kepler, soloVars, isInitialized, isRunning, frameId,
                        pendingFrames, orbitalData, allBodies, bodyVars>>
    ELSE /\ isRunning' = TRUE
         /\ Animate(0, pendingFrames)

\* a stop() that leaves the frame requested last to come
StopWithoutCancel ==
    /\ Outcome("stop", NoError)
    /\ passDates' = <<>>
    /\ isRunning' = FALSE
    /\ UNCHANGED <<pendingFrames, frameId>>
    /\ UNCHANGED <<timeVars, callVars, kepler, soloVars, isInitialized, orbitalData, allBodies, bodyVars>>

\* CosmosApp.stop()
Stop ==
    /\ Outcome("stop", NoError)
    /\ passDates' = <<>>
    /\ isRunning' = FALSE
    /\ IF frameId # 0
       THEN /\ pendingFrames' = pendingFrames \ {frameId}
            /\ frameId' = 0
       ELSE UNCHANGED <<pendingFrames, frameId>>
    /\ UNCHANGED <<timeVars, callVars, kepler, soloVars, isInitialized, orbitalData, allBodies, bodyVars>>

\* the browser runs the frame requested under the handle: animate()
Frame(handle, delta) ==
    /\ handle \in pendingFrames
    /\ UNCHANGED isRunning
    /\ IF ~isRunning
       THEN /\ Outcome("animate", NoError)
            /\ passDates' = <<>>
            /\ pendingFrames' = pendingFrames \ {handle}
            /\ UNCHANGED <<timeVars, callVars, kepler, soloVars, isInitialized, frameId, orbitalData,
                           allBodies, bodyVars>>
       ELSE Animate(delta, pendingFrames \ {handle})

\* a control of the user interface calls the TimeController
Control(call) ==
    /\ isInitialized
    /\ call
    /\ UNCHANGED <<kepler, appVars, soloVars>>

(***************************************************************************)
(* Inputs the callers are modelled to pass                                 *)
(***************************************************************************)
\* the scale at which one second of real time is one quantum of simulated time
QuantumScale == SecondsPerDay \div QuantaPerDay

DeltaInputs == {0, 1, 2, -1}
ScaleInputs == {0, QuantumScale, MAX_TIME_SCALE, -MAX_TIME_SCALE,
                MAX_TIME_SCALE + 1, -(MAX_TIME_SCALE + 1)}
\* a date just below the magnitude at which the spacing of the numbers doubles
BinadeEdge == 2 ^ MantBits - 2
JDInputs == {Round(jd) : jd \in {Days(J2000_JD), BinadeEdge, Days(MIN_JULIAN_DATE + 1),
                                 Days(MAX_JULIAN_DATE - 1), Days(MIN_JULIAN_DATE),
                                 Days(MAX_JULIAN_DATE)}}
DateInputs == {UTCDate(2000, 1, 1, 12, 0, 0), UTCDate(56000, 1, 1, 0, 0, 0)}
DaysInputs == {Round(Days(MAX_JULIAN_DATE \div 2)), -Round(Days(MAX_JULIAN_DATE))}

(***************************************************************************)
(* The TimeController on its own                                           *)
(***************************************************************************)
\* new TimeController(): the clock reading must lie in the band
TimeInit ==
    /\ julianDate \in {dateToJulian(now) : now \in NowDates}
    /\ InBand(julianDate)
    /\ timeScale = 1
    /\ isPaused = FALSE
    /\ accumulatedTime = 0
    /\ listeners = {}
    /\ lastOp = "constructor"
    /\ lastError = NoError
    /\ notified = {}
    /\ probe = NoProbe
    /\ kepler = NoKeplerCall
    /\ AppConstructed
    /\ NoSubjects
    /\ NoConversion
    /\ NoOrbit
    /\ orbitalData = OrbitalData

TimeNext ==
    \/ (\E d \in DeltaInputs : Update(d)) /\ UNCHANGED <<kepler, appVars, soloVars>>
    \/ (\E d \in NonFinite : Update(d)) /\ UNCHANGED <<kepler, appVars, soloVars>>
    \/ (\E s \in ScaleInputs : SetTimeScale(s)) /\ UNCHANGED <<kepler, appVars, soloVars>>
    \/ (\E s \in NonFinite : SetTimeScale(s)) /\ UNCHANGED <<kepler, appVars, soloVars>>
    \/ (Pause) /\ UNCHANGED <<kepler, appVars, soloVars>>
    \/ (Resume) /\ UNCHANGED <<kepler, appVars, soloVars>>
    \/ (TogglePause) /\ UNCHANGED <<kepler, appVars, soloVars>>
    \/ (Reverse) /\ UNCHANGED <<kepler, appVars, soloVars>>
    \/ (Forward) /\ UNCHANGED <<kepler, appVars, soloVars>>
    \/ (\E date \in DateInputs : SetDate(date)) /\ UNCHANGED <<kepler, appVars, soloVars>>
    \/ (SetDate(InvalidDate)) /\ UNCHANGED <<kepler, appVars, soloVars>>
    \/ (\E jd \in JDInputs : SetJulianDate(jd)) /\ UNCHANGED <<kepler, appVars, soloVars>>
    \/ (\E jd \in NonFinite : SetJulianDate(jd)) /\ UNCHANGED <<kepler, appVars, soloVars>>
    \/ (\E now \in NowDates : JumpToNow(now)) /\ UNCHANGED <<kepler, appVars, soloVars>>
    \/ (JumpToJ2000) /\ UNCHANGED <<kepler, appVars, soloVars>>
    \/ (\E days \in DaysInputs : AddDays(days)) /\ UNCHANGED <<kepler, appVars, soloVars>>
    \/ (\E days \in NonFinite : AddDays(days)) /\ UNCHANGED <<kepler, appVars, soloVars>>
    \/ (\E l \in Listeners : AddListener(l)) /\ UNCHANGED <<kepler, appVars, soloVars>>
    \/ (\E l \in Listeners : RemoveListener(l)) /\ UNCHANGED <<kepler, appVars, soloVars>>

TimeSpec == TimeInit /\ [][TimeNext]_vars


(***************************************************************************)
(* The solver on its own                                                   *)
(***************************************************************************)
\* mean anomalies, in hundredths of a degree: within one revolution, and two outside it
MeanAnomalyInputs ==
    {0, 100, 500, 1000, 4500, 9000, 13500, 17000, 17900, 18000, 18100, 27000, 35900, 36000,
     -12300, -67000}
\* eccentricities: a circle, Mercury's, a half, four above the 0.8 of the initial guess, and
\* two outside [0, 1)
EccentricityInputs ==
    {Ecc(0), Ecc(2056), Ecc(5000), Ecc(8264), Ecc(8500), Ecc(9000), OneMinusEpsilon,
     AngleScale, -1}
ToleranceInputs == {KEPLER_TOLERANCE, 0}
MaxIterationsInputs == {MAX_KEPLER_ITERATIONS, 3, 1, 0}

\* the arguments of a call about to be made
KeplerArguments ==
    {KeplerCall(M, e, tolerance, maxIterations, FALSE, NoKeplerCall.outcome) :
        M \in MeanAnomalyInputs, e \in EccentricityInputs, tolerance \in ToleranceInputs,
        maxIterations \in MaxIterationsInputs}
    \cup {KeplerCall(IF which = 1 THEN x ELSE 4500, IF which = 2 THEN x ELSE Ecc(2056),
                     IF which = 3 THEN x ELSE KEPLER_TOLERANCE,
                     IF which = 4 THEN x ELSE MAX_KEPLER_ITERATIONS, FALSE,
                     NoKeplerCall.outcome) : x \in NonFinite, which \in 1..4}

KeplerInit ==
    /\ julianDate \in {dateToJulian(now) : now \in NowDates}
    /\ timeScale = 1
    /\ isPaused = FALSE
    /\ accumulatedTime = 0
    /\ listeners = {}
    /\ lastOp = "constructor"
    /\ lastError = NoError
    /\ notified = {}
    /\ probe = NoProbe
    /\ AppConstructed
    /\ NoSubjects
    /\ NoConversion
    /\ NoOrbit
    /\ orbitalData = OrbitalData
    /\ kepler \in KeplerArguments

KeplerNext == SolveKepler /\ UNCHANGED <<timeVars, callVars, appVars, soloVars>>

KeplerSpec == KeplerInit /\ [][KeplerNext]_vars

(***************************************************************************)
(* The application                                                         *)
(***************************************************************************)
AppInit == TimeInit

AppNext ==
    \/ InitApp
    \/ Start
    \/ Stop
    \/ \E handle \in pendingFrames, delta \in FrameDeltas : Frame(handle, delta)
    \/ Control(TogglePause)
    \/ Control(Reverse)
    \/ Control(Forward)
    \/ \E now \in AppNowDates : Control(JumpToNow(now))
    \/ \E speed \in SpeedPresets : Control(SetTimeScale(speed))

AppSpec == AppInit /\ [][AppNext]_vars

(***************************************************************************)
(* The application assembled from tables that may hold a defect            *)
(***************************************************************************)
\* element sets the tables must not hold, each a valid one with one element spoilt
DefectiveElements(elements) ==
    {[elements EXCEPT !.eccentricity = v] : v \in {AngleScale, Ecc(15000), -1}}
    \cup {[elements EXCEPT !.semiMajorAxis = v] : v \in {0, -100000, PosInf}}
    \cup {[elements EXCEPT !.inclination = NaN],
          [elements EXCEPT !.longitudeOfAscendingNode = PosInf],
          [elements EXCEPT !.argumentOfPerihelion = NegInf],
          [elements EXCEPT !.meanAnomaly = NaN]}

\* the tables with the defect in the elements of a planet, of a moon or of a dwarf planet
DefectiveData ==
    {[OrbitalData EXCEPT !.planets["mars"] = d] :
        d \in DefectiveElements(PLANET_ORBITAL_DATA["mars"])}
    \cup {[OrbitalData EXCEPT !.moons["jupiter.io"] = d] :
             d \in DefectiveElements(MOON_ORBITAL_DATA["jupiter.io"]) \ 
                       {[MOON_ORBITAL_DATA["jupiter.io"] EXCEPT !.meanAnomaly = NaN]}}
    \cup {[OrbitalData EXCEPT !.dwarfPlanets["ceres"] = d] :
             d \in DefectiveElements(DWARF_PLANET_ORBITAL_DATA["ceres"]) \ 
                       {[DWARF_PLANET_ORBITAL_DATA["ceres"] EXCEPT !.meanAnomaly = NaN]}}

AssemblyInit ==
    /\ julianDate \in {dateToJulian(now) : now \in NowDates}
    /\ InBand(julianDate)
    /\ timeScale = 1
    /\ isPaused = FALSE
    /\ accumulatedTime = 0
    /\ listeners = {}
    /\ lastOp = "constructor"
    /\ lastError = NoError
    /\ notified = {}
    /\ probe = NoProbe
    /\ kepler = NoKeplerCall
    /\ AppConstructed
    /\ NoSubjects
    /\ NoConversion
    /\ NoOrbit
    /\ orbitalData \in {OrbitalData} \cup DefectiveData

AssemblySpec == AssemblyInit /\ [][AppNext]_vars

(***************************************************************************)
(* The calendar on its own                                                 *)
(***************************************************************************)
\* TimeController.dateToJulian for a valid Date, to the tick: the whole days less one half
\* are exact, and the sum with (hour + minute / 60 + second / 3600) / 24 is rounded to the
\* nearest tick
dateToJulianFine(date) ==
    LET y == IF date.month <= 2 THEN date.year - 1 ELSE date.year
        m == IF date.month <= 2 THEN date.month + 12 ELSE date.month
        A == y \div 100
        B == 2 - A + (A \div 4)
        whole == ((1461 * (y + 4716)) \div 4) + ((306001 * (m + 1)) \div 10000)
                 + date.day + B - 1525
        secs == date.hour * 3600 + date.minute * 60 + date.second
    IN  FineJD(whole, (TicksPerDay \div 2) + MulDiv(secs, TicksPerDay, SecondsPerDay))

\* what julianToDate comes to: the Date returned, or the error thrown
DateReturned(date) == [error |-> NoError, date |-> date]
DateThrown(error) == [error |-> error, date |-> InvalidDate]

\* the calendar day of julianToDate: A for the day number Z
GregorianA(Z) ==
    Z + 1 + ((4 * Z - 7468865) \div 146097) - (((4 * Z - 7468865) \div 146097) \div 4)
CalendarA(Z) == IF Z < 2299161 THEN Z ELSE GregorianA(Z)

\* the rest of julianToDate: the Date of the day number and the fraction F of a day, in ticks;
\* every product is exact
DateOf(A, F) ==
    LET B == A + 1524
        C == (20 * B - 2442) \div 7305
        D == (1461 * C) \div 4
        E == ((B - D) * 10000) \div 306001
        day == B - D - ((306001 * E) \div 10000)
        month == IF E < 14 THEN E - 1 ELSE E - 13
        year == IF month > 2 THEN C - 4716 ELSE C - 4715
        fracDay == F * 24
        hour == fracDay \div TicksPerDay
        fracHour == (fracDay % TicksPerDay) * 60
        minute == fracHour \div TicksPerDay
        second == ((fracHour % TicksPerDay) * 60) \div TicksPerDay
    IN  UTCDate(year, month, day, hour, minute, second)

\* TimeController.julianToDate
julianToDate(jd) ==
    IF ~(jd.whole >= MIN_JULIAN_DATE /\ (jd.whole > MIN_JULIAN_DATE \/ jd.ticks > 0)
         /\ jd.whole < MAX_JULIAN_DATE)
    THEN DateThrown("Julian date must be in valid range for conversion")
    ELSE DateReturned(DateOf(CalendarA(FineJD(jd.whole, jd.ticks + (TicksPerDay \div 2)).whole),
                             FineJD(jd.whole, jd.ticks + (TicksPerDay \div 2)).ticks))

\* dateToJulian(date)
ToJulian ==
    /\ calendar.stage = "date"
    /\ calendar' = [calendar EXCEPT !.stage = "julian", !.jd = dateToJulianFine(calendar.date)]

\* julianToDate(jd) of the Julian date dateToJulian returned
ToDate ==
    /\ calendar.stage = "julian"
    /\ calendar' = [calendar EXCEPT !.stage = "back",
                                    !.error = julianToDate(calendar.jd).error,
                                    !.back = julianToDate(calendar.jd).date]

\* dateToJulian(date) of the Date julianToDate returned
ToJulianAgain ==
    /\ calendar.stage = "back"
    /\ calendar.error = NoError
    /\ calendar' = [calendar EXCEPT !.stage = "again", !.again = dateToJulianFine(calendar.back)]

\* the days converted: the ends of 1900-2100, the turn of a year and of a century, leap
\* days, today, the first day of the Gregorian calendar and days before it, a day after 2100
CalendarDays ==
    {<<1900, 1, 1>>, <<1999, 12, 31>>, <<2000, 1, 1>>, <<2000, 2, 29>>, <<2000, 3, 1>>,
     <<2024, 2, 29>>, <<2026, 11, 6>>, <<2099, 12, 31>>, <<2100, 1, 1>>, <<1582, 10, 15>>,
     <<1582, 10, 14>>, <<1500, 3, 1>>, <<1000, 1, 1>>, <<2500, 7, 1>>}
\* the times of day: midnight, noon, the seconds next to them, and others
CalendarTimes ==
    {<<0, 0, 0>>, <<0, 0, 1>>, <<0, 11, 15>>, <<6, 0, 0>>, <<11, 59, 59>>, <<12, 0, 0>>,
     <<12, 0, 1>>, <<23, 59, 59>>}

CalendarInit ==
    /\ julianDate \in {dateToJulian(now) : now \in NowDates}
    /\ timeScale = 1
    /\ isPaused = FALSE
    /\ accumulatedTime = 0
    /\ listeners = {}
    /\ lastOp = "constructor"
    /\ lastError = NoError
    /\ notified = {}
    /\ probe = NoProbe
    /\ kepler = NoKeplerCall
    /\ AppConstructed
    /\ orbitalData = OrbitalData
    /\ NoSubjects
    /\ NoOrbit
    /\ \E day \in CalendarDays, time \in CalendarTimes :
           calendar = Conversion(UTCDate(day[1], day[2], day[3], time[1], time[2], time[3]))

CalendarNext ==
    \/ ToJulian /\ UNCHANGED <<timeVars, callVars, kepler, appVars, subjects, calls, orbit>>
    \/ ToDate /\ UNCHANGED <<timeVars, callVars, kepler, appVars, subjects, calls, orbit>>
    \/ ToJulianAgain /\ UNCHANGED <<timeVars, callVars, kepler, appVars, subjects, calls, orbit>>

CalendarSpec == CalendarInit /\ [][CalendarNext]_vars

(***************************************************************************)
(* An orbit on its own                                                     *)
(***************************************************************************)
\* the element sets of the tables, those of the planets and the dwarf planets with no
\* mean motion given, those of the planets with the perihelion passed at the epoch, and
\* those of the Earth with a mean motion of 0 and with one that is no number
WithoutMeanMotion(elements) == [elements EXCEPT !.meanMotion = Undefined]
AtPerihelion(elements) == [elements EXCEPT !.meanAnomaly = 0]
WithMeanMotion(elements, n) == [elements EXCEPT !.meanMotion = n]
OrbitElements ==
    {PLANET_ORBITAL_DATA[name] : name \in DOMAIN PLANET_ORBITAL_DATA}
    \cup {DWARF_PLANET_ORBITAL_DATA[name] : name \in DOMAIN DWARF_PLANET_ORBITAL_DATA}
    \cup {MOON_ORBITAL_DATA[name] : name \in DOMAIN MOON_ORBITAL_DATA}
    \cup {WithoutMeanMotion(PLANET_ORBITAL_DATA[name]) : name \in DOMAIN PLANET_ORBITAL_DATA}
    \cup {WithoutMeanMotion(DWARF_PLANET_ORBITAL_DATA[name]) :
             name \in DOMAIN DWARF_PLANET_ORBITAL_DATA}
    \cup {AtPerihelion(PLANET_ORBITAL_DATA[name]) : name \in DOMAIN PLANET_ORBITAL_DATA}
    \cup {WithMeanMotion(PLANET_ORBITAL_DATA["earth"], n) : n \in {0, NaN}}

\* the instants: the epoch, the instant before it, a century before it, and some thousand
\* days after it
OrbitInstants ==
    {Days(J2000_JD), Days(J2000_JD) - 1, Days(J2000_JD - 36525),
     Days(J2000_JD + 1000) + (QuantaPerDay \div 2)}

OrbitInit ==
    /\ julianDate \in {dateToJulian(now) : now \in NowDates}
    /\ timeScale = 1
    /\ isPaused = FALSE
    /\ accumulatedTime = 0
    /\ listeners = {}
    /\ lastOp = "constructor"
    /\ lastError = NoError
    /\ notified = {}
    /\ probe = NoProbe
    /\ kepler = NoKeplerCall
    /\ AppConstructed
    /\ orbitalData = OrbitalData
    /\ NoSubjects
    /\ NoConversion
    /\ \E elements \in OrbitElements, jd \in OrbitInstants : orbit = Orbit(elements, jd)

OrbitNext ==
    \/ Period /\ UNCHANGED <<timeVars, callVars, kepler, appVars, subjects, calls, calendar>>
    \/ EvaluateAt /\ UNCHANGED <<timeVars, callVars, kepler, appVars, subjects, calls, calendar>>
    \/ EvaluateLater
           /\ UNCHANGED <<timeVars, callVars, kepler, appVars, subjects, calls, calendar>>

OrbitSpec == OrbitInit /\ [][OrbitNext]_vars

(***************************************************************************)
(* Two bodies on their own: one configured with a rotation period, the     *)
(* other with the opposite one                                             *)
(***************************************************************************)
\* rotation periods in hundredths of an hour: none given, zero, the Earth's 23.93 h and
\* SUN_DATA's 609.12 h
RotationPeriods == {Undefined, 0, 2393, 60912}
Opposite(rotationPeriod) == IF rotationPeriod = Undefined THEN Undefined ELSE -rotationPeriod

\* the orbital elements a body is configured with: valid ones, or with an eccentricity of 1,
\* or of 1.5, or with a mean anomaly at epoch that is no number
ElementChoices == 1..4
ElementChoice(elements, choice) ==
    IF choice = 2 THEN [elements EXCEPT !.eccentricity = AngleScale]
    ELSE IF choice = 3 THEN [elements EXCEPT !.eccentricity = Ecc(15000)]
    ELSE IF choice = 4 THEN [elements EXCEPT !.meanAnomaly = NaN]
    ELSE elements

\* the configurations: that of new Sun() is SUN_DATA
ConfigOf(class, rotationPeriod, choice, tidallyLocked) ==
    IF class = "Sun"
    THEN Config("Sun", "Sun", 696340, 60912, 725, FALSE, NoElements, NoParent, <<>>)
    ELSE IF class = "Planet"
    THEN Config("Planet", "Earth", 6371, rotationPeriod, 2344, TRUE,
                ElementChoice(PLANET_ORBITAL_DATA["earth"], choice), NoParent, <<>>)
    ELSE Config("Moon", "Moon", 1737, rotationPeriod, Undefined, TRUE,
                ElementChoice(MOON_ORBITAL_DATA["earth.moon"], choice), "Earth", tidallyLocked)

\* the configurations of a class with the rotation period given
ConfigsOf(class, rotationPeriod, choice) ==
    IF class = "Sun"
    THEN IF rotationPeriod = 60912 THEN {ConfigOf(class, rotationPeriod, choice, <<>>)} ELSE {}
    ELSE IF class = "Planet" THEN {ConfigOf(class, rotationPeriod, choice, <<>>)}
    ELSE {ConfigOf(class, rotationPeriod, choice, locked) : locked \in {<<>>, <<FALSE>>}}

BodyClasses == {"Sun", "Planet", "Moon"}

\* the calls of update(): the date is J2000.0
UpdateDeltas == {0, 1}
UpdateScales == {1, -1000, 1000000}

BodyInit ==
    /\ julianDate \in {dateToJulian(now) : now \in NowDates}
    /\ timeScale = 1
    /\ isPaused = FALSE
    /\ accumulatedTime = 0
    /\ listeners = {}
    /\ lastOp = "constructor"
    /\ lastError = NoError
    /\ notified = {}
    /\ probe = NoProbe
    /\ kepler = NoKeplerCall
    /\ AppConstructed
    /\ orbitalData = OrbitalData
    /\ calls = <<>>
    /\ NoConversion
    /\ NoOrbit
    /\ \E rotationPeriod \in RotationPeriods, choice \in ElementChoices,
          classA \in BodyClasses, classB \in BodyClasses :
           \E a \in ConfigsOf(classA, rotationPeriod, choice),
              b \in ConfigsOf(classB, Opposite(rotationPeriod), choice) :
               subjects = <<Subject(a), Subject(b)>>

BodyNext ==
    \/ (\E k \in DOMAIN subjects : Construct(k))
           /\ UNCHANGED <<timeVars, callVars, kepler, appVars, calendar, orbit>>
    \/ (\E k \in DOMAIN subjects : InitBody(k))
           /\ UNCHANGED <<timeVars, callVars, kepler, appVars, calendar, orbit>>
    \/ (\E deltaTime \in UpdateDeltas, scale \in UpdateScales :
           UpdateBoth(Days(J2000_JD), deltaTime, scale))
           /\ UNCHANGED <<timeVars, callVars, kepler, appVars, calendar, orbit>>

BodySpec == BodyInit /\ [][BodyNext]_vars

(***************************************************************************)
(* Two bodies under the ticks of the loop                                  *)
(***************************************************************************)
\* the tick of CosmosApp.animate() for a frame delta within its bounds, the bodies the solar
\* system holds being the two on their own: timeController.update(delta), then
\* solarSystem.update(julianDate, delta, timeScale) with what the controller returns
Tick(delta) ==
    /\ Update(delta)
    /\ IF lastError' # NoError THEN UNCHANGED <<subjects, calls>>
       ELSE UpdateBoth(julianDate', delta, timeScale')

\* the scales the controls set
TickScales == {1000, -1000}

TickInit ==
    /\ julianDate \in {dateToJulian(now) : now \in NowDates}
    /\ timeScale = 1
    /\ isPaused = FALSE
    /\ accumulatedTime = 0
    /\ listeners = {}
    /\ lastOp = "constructor"
    /\ lastError = NoError
    /\ notified = {}
    /\ probe = NoProbe
    /\ kepler = NoKeplerCall
    /\ AppConstructed
    /\ orbitalData = OrbitalData
    /\ calls = <<>>
    /\ NoConversion
    /\ NoOrbit
    /\ subjects \in {<<Subject(ConfigOf("Planet", 2393, 1, <<>>)),
                        Subject(ConfigOf("Moon", Undefined, 1, <<>>))>>,
                      <<Subject(ConfigOf("Sun", 60912, 1, <<>>)),
                        Subject(ConfigOf("Planet", -2393, 1, <<>>))>>}

TickNext ==
    \/ (\E k \in DOMAIN subjects : Construct(k))
           /\ UNCHANGED <<timeVars, callVars, kepler, appVars, calendar, orbit>>
    \/ (\E k \in DOMAIN subjects : InitBody(k))
           /\ UNCHANGED <<timeVars, callVars, kepler, appVars, calendar, orbit>>
    \/ (\E delta \in UpdateDeltas : Tick(delta)) /\ UNCHANGED <<kepler, appVars, calendar, orbit>>
    \/ (\E scale \in TickScales : SetTimeScale(scale)) /\ UNCHANGED <<kepler, appVars, soloVars>>
    \/ Pause /\ UNCHANGED <<kepler, appVars, soloVars>>
    \/ Resume /\ UNCHANGED <<kepler, appVars, soloVars>>

TickSpec == TickInit /\ [][TickNext]_vars

(***************************************************************************)
(* A moon on its own                                                       *)
(***************************************************************************)
\* the calls of update(): at J2000.0 and a week later
LockDates == {Days(J2000_JD), Days(J2000_JD + 7)}

LockInit ==
    /\ julianDate \in {dateToJulian(now) : now \in NowDates}
    /\ timeScale = 1
    /\ isPaused = FALSE
    /\ accumulatedTime = 0
    /\ listeners = {}
    /\ lastOp = "constructor"
    /\ lastError = NoError
    /\ notified = {}
    /\ probe = NoProbe
    /\ kepler = NoKeplerCall
    /\ AppConstructed
    /\ orbitalData = OrbitalData
    /\ calls = <<>>
    /\ NoConversion
    /\ NoOrbit
    /\ \E rotationPeriod \in {Undefined, 0, 65573}, locked \in {<<>>, <<TRUE>>, <<FALSE>>} :
           subjects = <<Subject(ConfigOf("Moon", rotationPeriod, 1, locked))>>

LockNext ==
    \/ (\E k \in DOMAIN subjects : Construct(k))
           /\ UNCHANGED <<timeVars, callVars, kepler, appVars, calendar, orbit>>
    \/ (\E k \in DOMAIN subjects : InitBody(k))
           /\ UNCHANGED <<timeVars, callVars, kepler, appVars, calendar, orbit>>
    \/ (\E k \in DOMAIN subjects : AssignParentBody(k))
           /\ UNCHANGED <<timeVars, callVars, kepler, appVars, calendar, orbit>>
    \/ (\E jd \in LockDates, deltaTime \in UpdateDeltas :
           UpdateBoth(jd, deltaTime, 1))
           /\ UNCHANGED <<timeVars, callVars, kepler, appVars, calendar, orbit>>

LockSpec == LockInit /\ [][LockNext]_vars

(***************************************************************************)
(* Properties of the TimeController                                        *)
(***************************************************************************)
OutOfBandAfterUpdate == "Julian date must remain in valid range after update"
ScaleOutOfBounds == "Absolute time scale must be between 0 and 10000000"

\* C1: after any sequence of calls, those that end by raising an error included, the
\* stored Julian date is finite and strictly between 0 and 20,000,000
C1_JulianDateInBand == IsFinite(julianDate) /\ InBand(julianDate)

\* C2: an unpaused update(d) with finite d >= 0 moves the Julian date by d * timeScale / 86400
\* days (forward for a positive scale, backward for a negative one, not at all for zero)
\* and raises an error exactly when the result is not strictly inside the band
C2_UpdateAdvances ==
    [][\A d \in DeltaInputs :
          (Update(d) /\ ~isPaused /\ d >= 0) =>
              /\ julianDate' = Round(julianDate
                                     + Round(RoundDiv(d * timeScale * QuantaPerDay, SecondsPerDay)))
              /\ timeScale > 0 => julianDate' >= julianDate
              /\ timeScale < 0 => julianDate' <= julianDate
              /\ timeScale = 0 => julianDate' = julianDate
              /\ (lastError' # NoError) <=> ~InBand(julianDate')]_vars

\* an update under a negative scale moved the date backward out of the band and raised
C2_Witness ==
    /\ lastOp = "update"
    /\ lastError = OutOfBandAfterUpdate
    /\ timeScale < 0
    /\ julianDate <= Days(MIN_JULIAN_DATE)

\* C3: while paused, update changes neither the Julian date nor the accumulated time and
\* notifies no listener; pause, resume and togglePause change only the paused flag
C3_PauseFreezesTime ==
    [][/\ \A d \in DeltaInputs \cup NonFinite :
             (Update(d) /\ isPaused) =>
                 /\ UNCHANGED <<julianDate, accumulatedTime, timeScale, isPaused>>
                 /\ notified' = {}
       /\ (Pause \/ Resume \/ TogglePause) =>
              UNCHANGED <<julianDate, timeScale, accumulatedTime, listeners>>]_vars

\* a paused controller with a listener, whose clock had already run, was updated
C3_Witness ==
    /\ lastOp = "update"
    /\ isPaused
    /\ listeners # {}
    /\ accumulatedTime > 0
    /\ timeScale # 0

ReversalTolerance ==
    UlpOf(IF Abs(probe.mid) > Abs(probe.jd) THEN Abs(probe.mid) ELSE Abs(probe.jd))

\* C5 as stated: from Julian date J, update(d), a flip of the scale's sign and update(d)
\* again bring the Julian date back to J, provided the date in between is in the band
C5_ReversalExact ==
    (probe.phase = 3 /\ InBand(probe.mid)) => julianDate = probe.jd

\* C5 amended: the Julian date comes back to J within floating tolerance, one spacing of
\* the numbers at these dates, and to J itself when the scale is zero
C5_ReversalWithinTolerance ==
    (probe.phase = 3 /\ InBand(probe.mid)) =>
        /\ Abs(julianDate - probe.jd) <= ReversalTolerance
        /\ probe.scale = 0 => julianDate = probe.jd

\* a reversal experiment that moved the date and came back beside J, not on it
C5_Witness ==
    /\ probe.phase = 3
    /\ InBand(probe.mid)
    /\ probe.mid # probe.jd
    /\ julianDate # probe.jd
    /\ Abs(julianDate - probe.jd) <= ReversalTolerance

\* C21: reverse() sets the scale to -|timeScale| and forward() sets it to +|timeScale|; each
\* keeps the magnitude, the Julian date and the paused flag, a second call in a row changes
\* nothing more, and the snapshot handed to the listeners says isReversed exactly when
\* the scale is negative
C21_ReverseForwardIdempotent ==
    [][/\ lastOp' = "reverse" =>
              /\ timeScale' = -Abs(timeScale)
              /\ lastOp = "reverse" => timeScale' = timeScale
       /\ lastOp' = "forward" =>
              /\ timeScale' = Abs(timeScale)
              /\ lastOp = "forward" => timeScale' = timeScale
       /\ lastOp' \in {"reverse", "forward"} =>
              /\ Abs(timeScale') = Abs(timeScale)
              /\ UNCHANGED <<julianDate, isPaused>>
       /\ \A n \in notified' : n.state.isReversed <=> timeScale' < 0]_vars

\* reverse() turned a positive scale, under which the date had moved, and told a listener
C21_Witness ==
    /\ lastOp = "reverse"
    /\ probe.phase = 2
    /\ probe.scale > 0
    /\ timeScale = -probe.scale
    /\ \E n \in notified : n.state.isReversed

AfterAddingDays == "Julian date must remain in valid range after adding days"

\* C26: addDays(days) and setJulianDate(jd) check before they assign: where the argument is
\* not finite or the date that would result is not strictly between 0 and 20,000,000, the
\* call raises an error, the stored Julian date is as it was and no listener is notified
C26_ValidateBeforeAssign ==
    [][/\ \A jd \in JDInputs \cup NonFinite :
             (SetJulianDate(jd) /\ (~IsFinite(jd) \/ ~InBand(jd))) =>
                 /\ lastError' # NoError
                 /\ julianDate' = julianDate
                 /\ notified' = {}
       /\ \A days \in DaysInputs \cup NonFinite :
             (AddDays(days) /\ (~IsFinite(days) \/ ~InBand(FAdd(julianDate, days)))) =>
                 /\ lastError' # NoError
                 /\ julianDate' = julianDate
                 /\ notified' = {}]_vars

\* days were added that would have taken the date below the band, a listener being
\* registered: the call was refused and the date is in the band
C26_Witness ==
    /\ lastOp = "addDays"
    /\ lastError = AfterAddingDays
    /\ listeners # {}
    /\ InBand(julianDate)
    /\ julianDate # Days(J2000_JD)

\* the calls that change the state of the TimeController
StateChangingCalls ==
    {"update", "setTimeScale", "pause", "resume", "togglePause", "reverse", "forward", "setDate",
     "setJulianDate", "addDays", "jumpToNow", "jumpToJ2000"}

MustConverge == "Kepler equation must converge"

\* C10: a call of solveKeplerEquation makes at most MAX_KEPLER_ITERATIONS (100) Newton-Raphson
\* iterations, and no more than its maxIterations; it returns only if the step of its last
\* iteration was smaller in magnitude than the tolerance, and what it returns is then the
\* estimate that step led to; if every step it made was at least the tolerance, or it made
\* none, it throws.  It never returns an estimate that did not converge.
C10_KeplerConvergesOrThrows ==
    kepler.called =>
        LET outcome == kepler.outcome
            n == Len(outcome.steps)
        IN  /\ outcome.status \in {"returned", "thrown"}
            /\ n = outcome.iterations
            /\ n <= MAX_KEPLER_ITERATIONS
            /\ n > 0 => n <= kepler.maxIterations
            /\ \A i \in 1..(n - 1) : ~(Abs(outcome.steps[i]) < kepler.tolerance)
            /\ outcome.status = "returned" =>
                   /\ n >= 1
                   /\ Abs(outcome.steps[n]) < kepler.tolerance
                   /\ outcome.converged
            /\ (\A i \in 1..n : ~(Abs(outcome.steps[i]) < kepler.tolerance)) =>
                   outcome.status = "thrown"

\* the solver used up all its iterations on valid arguments and threw
C10_Witness ==
    /\ kepler.called
    /\ kepler.maxIterations = MAX_KEPLER_ITERATIONS
    /\ kepler.outcome.status = "thrown"
    /\ kepler.outcome.error = MustConverge
    /\ Len(kepler.outcome.steps) = MAX_KEPLER_ITERATIONS
    /\ \A i \in 1..MAX_KEPLER_ITERATIONS :
           Abs(kepler.outcome.steps[i]) >= kepler.tolerance

\* a call with arguments the solver's contract admits, and its default tolerance and cap
ValidKeplerCall ==
    /\ kepler.called
    /\ IsFinite(kepler.meanAnomaly)
    /\ IsFinite(kepler.eccentricity)
    /\ kepler.eccentricity >= 0
    /\ kepler.eccentricity < OneMinusEpsilon
    /\ kepler.tolerance = KEPLER_TOLERANCE
    /\ kepler.maxIterations = MAX_KEPLER_ITERATIONS

\* E - e*sin(E) - M_rad of a call that has come back
KeplerResidual ==
    kepler.outcome.E - MulFix(kepler.eccentricity, Sin(kepler.outcome.E))
        - DegToRad(kepler.meanAnomaly)

\* C11: for every finite mean anomaly and every eccentricity in [0, 0.999999) the solver
\* converges (it returns, it does not throw), and the E it returns satisfies
\* |E - e*sin(E) - M_rad| < 1e-9, ten times the tolerance.
C11_ConvergesWithinResidual ==
    ValidKeplerCall =>
        /\ kepler.outcome.status = "returned"
        /\ Abs(KeplerResidual) < 10 * KEPLER_TOLERANCE

\* C12: for eccentricity 0 and any finite mean anomaly the solver converges in its first
\* iteration, with a step of exactly zero, and returns exactly the mean anomaly converted to
\* radians.
C12_CircularOrbitExact ==
    (/\ kepler.called
     /\ IsFinite(kepler.meanAnomaly)
     /\ kepler.eccentricity = 0
     /\ IsFinite(kepler.tolerance) /\ kepler.tolerance > 0
     /\ IsFinite(kepler.maxIterations) /\ kepler.maxIterations > 0) =>
        /\ kepler.outcome.status = "returned"
        /\ kepler.outcome.E = DegToRad(kepler.meanAnomaly)
        /\ kepler.outcome.iterations = 1
        /\ kepler.outcome.steps = <<0>>

\* a circular orbit solved for a mean anomaly outside one revolution, with room for more
\* iterations than the one it took
C12_Witness ==
    /\ kepler.called
    /\ kepler.eccentricity = 0
    /\ kepler.meanAnomaly = -67000
    /\ kepler.maxIterations = MAX_KEPLER_ITERATIONS
    /\ kepler.outcome.status = "returned"
    /\ kepler.outcome.iterations = 1
    /\ kepler.outcome.E = DegToRad(-67000)
    /\ kepler.outcome.E # 0

(***************************************************************************)
(* Properties of the application                                           *)
(***************************************************************************)
\* the bodies that have orbital elements, by their place in allBodies
Orbiting == {k \in DOMAIN allBodies : allBodies[k].hasOrbitalElements}

\* the loop is running, animate() was the last thing to happen and it raised nothing
Ticked ==
    /\ appOp = "animate"
    /\ isRunning
    /\ lastOp = "update"
    /\ appError = NoError

\* the dates the clock is constructed with
StartDates == {dateToJulian(now) : now \in AppNowDates}

\* the three coordinates of a position calculatePosition returned
Coordinates(local) == <<local.x, local.y, local.z>>

\* C6: in allBodies every body that has a parent comes after that parent, and in a pass
\* over the bodies every child that was updated read a parent position that the same pass
\* had already computed, for the same Julian date: never one left from an earlier tick.
C6_ParentBeforeChild ==
    \A k \in DOMAIN allBodies :
        LET body == allBodies[k]
        IN  body.parentBody # NoParent =>
                /\ \E j \in 1..(k - 1) : allBodies[j].name = body.parentBody
                /\ computedFor[body.name] # Undefined =>
                       /\ parentSeenFor[body.name] # Undefined
                       /\ parentSeenFor[body.name] = computedFor[body.name]

\* a later tick, at another date than the first, in which Charon read the position of Pluto
C6_Witness ==
    /\ Ticked
    /\ accumulatedTime >= MsPerSecond
    /\ julianDate \notin StartDates
    /\ computedFor["Charon"] = julianDate
    /\ parentSeenFor["Charon"] = julianDate

\* C7: after a pass over the bodies that completed, a body with orbital elements and no
\* parent is at its orbital offset times 100, and one with a parent is at the position its
\* parent has for the same Julian date plus its orbital offset times 5000; the offset is
\* what calculatePosition returns for the body's elements and that date.
C7_HierarchyComposition ==
    (passDates # <<>> /\ appError = NoError) =>
        \A k \in Orbiting :
            LET body == allBodies[k]
                local == LocalPosition(body, passDates[1])
            IN  /\ local.error = NoError
                /\ IF body.parentBody = NoParent
                   THEN position[body.name] =
                            [c \in 1..3 |-> Round(Coordinates(local)[c] * 100)]
                   ELSE /\ computedFor[body.parentBody] = passDates[1]
                        /\ position[body.name] =
                               [c \in 1..3 |-> Round(position[body.parentBody][c]
                                                     + Round(Coordinates(local)[c] * 5000))]

\* a completed pass that put the Earth away from the origin and the Moon away from the Earth
C7_Witness ==
    /\ passDates # <<>>
    /\ appError = NoError
    /\ computedFor["Moon"] = passDates[1]
    /\ position["Earth"] # Origin
    /\ position["Moon"] # position["Earth"]
    /\ position["Mars"] # Origin

\* C8: a tick that raised nothing made exactly one pass over the bodies, for the Julian date
\* the TimeController holds after its update, and that pass computed the position of every
\* body with orbital elements; at most one frame is ever requested, so no two ticks overlap.
C8_TickAdvancesThenUpdates ==
    /\ Cardinality(pendingFrames) <= 1
    /\ isRunning => pendingFrames = {frameId}
    /\ Ticked =>
           /\ passDates = <<julianDate>>
           /\ \A k \in Orbiting : computedFor[allBodies[k].name] = julianDate

\* the tick after two seconds at a million times real time
C8_Witness ==
    /\ Ticked
    /\ timeScale = 1000000
    /\ accumulatedTime = 2 * MsPerSecond
    /\ passDates = <<julianDate>>
    /\ julianDate \notin StartDates
    /\ \A k \in Orbiting : computedFor[allBodies[k].name] = julianDate

RejectedDelta(delta) == ~(IsFinite(delta) /\ delta >= 0 /\ delta <= MAX_DELTA_TIME)

\* C30: a tick whose frame delta is negative, not finite or above one second raises an error
\* and leaves the TimeController and every body as they were, with the next frame requested
\* and the loop running; a tick moves the Julian date by at most |timeScale| / 86400 days, to
\* the half quantum the stored date is rounded by, and |timeScale| is at most 10,000,000
C30_RejectedDeltaTouchesNothing ==
    [][/\ \A delta \in FrameDeltas :
             (isRunning /\ RejectedDelta(delta) /\ Frame(frameId, delta)) =>
                 /\ appError' # NoError
                 /\ UNCHANGED <<timeVars, callVars, bodyVars>>
                 /\ passDates' = <<>>
                 /\ isRunning'
                 /\ pendingFrames' = {frameId'}
       /\ lastOp' = "update" =>
              /\ Abs(julianDate' - julianDate) * SecondsPerDay
                     <= Abs(timeScale) * MAX_DELTA_TIME * QuantaPerDay + SecondsPerDay \div 2
              /\ Abs(timeScale) <= MAX_TIME_SCALE]_vars

\* a tick measured two seconds after a second of ticks at a million times real time: it
\* raised, and the next frame is requested
C30_Witness ==
    /\ appOp = "animate"
    /\ appError = "Frame delta time exceeds maximum"
    /\ isRunning
    /\ pendingFrames = {frameId}
    /\ timeScale = 1000000
    /\ accumulatedTime = MsPerSecond
    /\ passDates = <<>>

\* where the elements of the body and of its ancestors put it at the Julian date jd
RECURSIVE WorldAt(_, _)
WorldAt(name, jd) ==
    LET body == allBodies[CHOOSE k \in DOMAIN allBodies : allBodies[k].name = name]
        local == Coordinates(LocalPosition(body, jd))
    IN  IF body.parentBody = NoParent
        THEN [c \in 1..3 |-> FMul(local[c], OrbitScale(FALSE))]
        ELSE [c \in 1..3 |-> FAdd(WorldAt(body.parentBody, jd)[c],
                                   FMul(local[c], OrbitScale(TRUE)))]

\* C9: after a tick that raised nothing, the position of every body with orbital elements
\* is a function of its own elements, its ancestors' elements and the current Julian date:
\* whatever ticks, changes of speed, reversals, pauses and jumps led to that date.
C9_HistoryIndependent ==
    Ticked => \A k \in Orbiting :
                  position[allBodies[k].name] = WorldAt(allBodies[k].name, julianDate)

\* the clock is back at the date it started from, having run a second forward and a second
\* in reverse
C9_Witness ==
    /\ Ticked
    /\ timeScale = -1000000
    /\ accumulatedTime = 2 * MsPerSecond
    /\ julianDate \in StartDates
    /\ position["Io"] = WorldAt("Io", julianDate)
    /\ position["Io"] # Origin

\* an element set the evaluator must never be given
InvalidElements(elements) ==
    \/ ~IsFinite(elements.eccentricity)
    \/ elements.eccentricity >= AngleScale
    \/ elements.eccentricity < 0
    \/ ~IsFinite(elements.semiMajorAxis)
    \/ elements.semiMajorAxis <= 0
    \/ ~IsFinite(elements.inclination)
    \/ ~IsFinite(elements.longitudeOfAscendingNode)
    \/ ~IsFinite(elements.argumentOfPerihelion)
    \/ ~IsFinite(elements.meanAnomaly)

\* the tables hold an invalid element set
HoldsInvalidElements(data) ==
    \/ \E name \in DOMAIN data.planets : InvalidElements(data.planets[name])
    \/ \E name \in DOMAIN data.dwarfPlanets : InvalidElements(data.dwarfPlanets[name])
    \/ \E name \in DOMAIN data.moons : InvalidElements(data.moons[name])

\* C13: when the tables hold an invalid orbital element set (eccentricity >= 1 or < 0, a
\* semi-major axis that is not positive, a non-finite angle, the mean anomaly at epoch
\* included), assembly detects it: CosmosApp.init() fails whenever it is called, the
\* application is never initialised, it never runs, and no tick makes a pass over the
\* bodies.
C13_InvalidElementsStopAssembly ==
    HoldsInvalidElements(orbitalData) =>
        /\ appOp = "init" => appError # NoError
        /\ ~isInitialized
        /\ ~isRunning
        /\ passDates = <<>>


(***************************************************************************)
(* Properties of the calendar                                              *)
(***************************************************************************)
\* the date lies from 1900-01-01 through 2100-01-01
From1900Through2100(date) ==
    \/ date.year >= 1900 /\ date.year < 2100
    \/ /\ date.year = 2100 /\ date.month = 1 /\ date.day = 1
       /\ date.hour = 0 /\ date.minute = 0 /\ date.second = 0

\* C15: for every whole-second UTC date d from 1900-01-01 through 2100-01-01,
\* julianToDate(dateToJulian(d)) is d: the same year, month, day, hour, minute and second
C15_CalendarRoundTrip ==
    (From1900Through2100(calendar.date) /\ calendar.stage \in {"back", "again"})
        => calendar.error = NoError /\ calendar.back = calendar.date

\* C16: dateToJulian and julianToDate are inverse to each other for every whole-second date
\* whose Julian date lies in the band, the dates before 15 October 1582 included:
\* julianToDate returns the date dateToJulian was given, and dateToJulian the Julian date
\* julianToDate was given
C16_MutuallyInverse ==
    /\ calendar.stage \in {"back", "again"}
           => calendar.error = NoError /\ calendar.back = calendar.date
    /\ calendar.stage = "again" => calendar.again = calendar.jd

(***************************************************************************)
(* Properties of the orbit                                                 *)
(***************************************************************************)
\* the angle between two mean anomalies, in hundredths of a degree
AnomalyGap(M, laterM) == Min((M - laterM) % 36000, (laterM - M) % 36000)

\* the largest coordinate of the difference of two positions
PositionGap(p, q) ==
    IF Abs(p.x - q.x) >= Abs(p.y - q.y) /\ Abs(p.x - q.x) >= Abs(p.z - q.z) THEN Abs(p.x - q.x)
    ELSE IF Abs(p.y - q.y) >= Abs(p.z - q.z) THEN Abs(p.y - q.y)
    ELSE Abs(p.z - q.z)

\* what floating tolerance is where a date is a whole number of quanta and a mean motion a
\* whole number of millionths of a degree per day: the period is off by up to half a quantum
\* and the mean motion by up to half a millionth, and each mean anomaly by half a hundredth
MeanAnomalyTolerance(n, period) == 2 + ((n + period) \div (2 * QuantaPerDay * 10000))
\* and for a coordinate, in the unit of the semi-major axis
PositionTolerance(elements) == 2 + (elements.semiMajorAxis \div 500)

\* the two evaluations agree within tolerance
SameAfterOnePeriod ==
    /\ orbit.position.error = NoError
    /\ orbit.laterPosition.error = NoError
    /\ AnomalyGap(orbit.M, orbit.laterM)
           <= MeanAnomalyTolerance(MeanMotionOf(orbit.elements), orbit.period.value)
    /\ PositionGap(orbit.position, orbit.laterPosition) <= PositionTolerance(orbit.elements)

\* C17 as stated: for any valid orbital elements, with or without an explicit meanMotion, and
\* any instant t, calculatePosition(elements, t) and calculatePosition(elements, t +
\* calculateOrbitalPeriod(a)) have the same normalized mean anomaly and the same position
\* within tolerance
C17_PeriodicWithAnyMeanMotion == orbit.stage = "second" => SameAfterOnePeriod

\* C17: for any valid orbital elements without an explicit meanMotion and any instant t,
\* calculatePosition(elements, t) and calculatePosition(elements, t +
\* calculateOrbitalPeriod(a)) have the same normalized mean anomaly and the same position
\* within tolerance
C17_PeriodicWithDerivedMeanMotion ==
    (orbit.stage = "second" /\ orbit.elements.meanMotion = Undefined) => SameAfterOnePeriod

\* Mars with no mean motion given was evaluated a century before the epoch and one period
\* of more than 686 days later, away from the origin
C17_Witness ==
    /\ orbit.stage = "second"
    /\ orbit.elements = WithoutMeanMotion(PLANET_ORBITAL_DATA["mars"])
    /\ orbit.jd = Days(J2000_JD - 36525)
    /\ orbit.period.value > Days(686)
    /\ orbit.period.value < Days(688)
    /\ orbit.position.error = NoError
    /\ PositionGap(orbit.position, Position(0, 0, 0)) > PositionTolerance(orbit.elements)
    /\ SameAfterOnePeriod

\* C23: for every finite mean anomaly at epoch, every mean motion n > 0 and every Julian date,
\* before or after the epoch, the mean anomaly calculatePosition solves Kepler's equation for
\* is at least 0 and below 360 degrees
C23_MeanAnomalyNormalized ==
    /\ (orbit.stage \in {"first", "second"} /\ orbit.position.error = NoError) =>
           (orbit.M >= 0 /\ orbit.M < 36000)
    /\ (orbit.stage = "second" /\ orbit.laterPosition.error = NoError) =>
           (orbit.laterM >= 0 /\ orbit.laterM < 36000)

\* the mean motion of an element set were the one supplied taken whatever its value
SuppliedOrDerived(elements) ==
    IF elements.meanMotion = Undefined THEN MeanMotionFromAxis(elements.semiMajorAxis)
    ELSE elements.meanMotion

\* C24: calculatePosition computes with elements.meanMotion whenever the field is present,
\* whatever its value, and with 360 / (a^1.5 * 365.25) degrees per day only when it is absent
C24_SuppliedMeanMotionWins ==
    orbit.stage \in {"first", "second"} =>
        orbit.position = PositionWithMeanMotion(orbit.elements, orbit.jd,
                                                SuppliedOrDerived(orbit.elements))

(***************************************************************************)
(* Properties of the bodies under the ticks of the loop                    *)
(***************************************************************************)
\* C27: while the TimeController is paused a tick advances the spin angle of no body: the
\* rotation stands still with the simulated date
C27_PauseFreezesSpin ==
    [][(isPaused /\ lastOp' = "update") =>
           /\ julianDate' = julianDate
           /\ \A k \in DOMAIN subjects : subjects'[k].spin = subjects[k].spin]_vars

(***************************************************************************)
(* Properties of the moon on its own                                       *)
(***************************************************************************)
\* the tidally locked moon and its parent are at the same point
Degenerate(subject) ==
    /\ subject.stage = "initialised"
    /\ subject.body.tidallyLocked
    /\ subject.body.parentBody # NoParent
    /\ subject.position = ParentPositionOf(subject)

\* C22: an update() that finds a tidally locked moon and its parent at the same world position
\* raises no error and leaves the orientation of the moon's mesh as it was before the update
C22_DegenerateDirectionHeld ==
    [][\A k \in DOMAIN subjects :
          (calls' # calls /\ Degenerate(subjects'[k])) =>
              /\ subjects'[k].error = NoError
              /\ subjects'[k].quaternion = subjects[k].quaternion]_vars

(***************************************************************************)
(* Properties of the bodies on their own                                   *)
(***************************************************************************)
\* C25: init() and update() of a body of any class change only its derived state (the mesh,
\* the tilt of the group, the world position, the spin angle, the orientation): across any
\* ticks the orbital elements, the parent, the radius, the rotation period and the axial
\* tilt are those the constructor set, and the configuration is as it was handed over
C25_ConstructionValuesKept ==
    [][\A k \in DOMAIN subjects :
          subjects[k].stage \in {"constructed", "initialised", "init failed"} =>
              /\ subjects'[k].body = subjects[k].body
              /\ subjects'[k].config = subjects[k].config]_vars

\* a planet and a moon that were initialised and updated as often as may be: both have moved,
\* the planet has spun, the moon has turned toward its parent
C25_Witness ==
    /\ Len(calls) >= 2
    /\ subjects[1].config.class = "Planet" /\ subjects[2].config.class = "Moon"
    /\ \A k \in DOMAIN subjects :
           /\ subjects[k].stage = "initialised"
           /\ subjects[k].error = NoError
           /\ subjects[k].position # Origin
           /\ subjects[k].body.orbitalElements = subjects[k].config.orbitalElements
    /\ subjects[1].spin # 0 /\ subjects[1].tilt # 0
    /\ subjects[2].quaternion # <<>>

\* C14: a body configured with invalid orbital elements is never constructed: once its
\* constructor was called it has thrown, so that no init() and no update() hands the
\* elements to calculatePosition
C14_InvalidElementsFailConstruction ==
    \A k \in DOMAIN subjects :
        (/\ subjects[k].config.hasOrbitalElements
         /\ InvalidElements(subjects[k].config.orbitalElements)
         /\ subjects[k].stage # "configured")
            => subjects[k].stage = "not constructed"

\* the body took every update() call made so far with its mesh in place, and none threw
Updated(subject) == subject.stage = "initialised" /\ subject.error = NoError /\ calls # <<>>

\* C18: two bodies with the rotation periods +P and -P, P not 0, that received the same
\* update(julianDate, deltaTime, timeScale) calls have spin angles of equal magnitude and
\* opposite sign after every call
C18_RetrogradeOpposite ==
    (/\ Updated(subjects[1])
     /\ Updated(subjects[2])
     /\ subjects[1].body.rotationPeriod # 0
     /\ subjects[1].body.rotationPeriod = -subjects[2].body.rotationPeriod)
        => subjects[1].spin = -subjects[2].spin

\* 2 * pi * (deltaTime / 3600) / rotationPeriodHours * timeScale summed over the calls made,
\* and nothing where the rotation period is 0
RECURSIVE SpinAfter(_, _)
SpinAfter(rotationPeriod, made) ==
    IF made = <<>> \/ rotationPeriod = 0 THEN 0
    ELSE SpinAfter(rotationPeriod, SubSeq(made, 1, Len(made) - 1))
             + RotationDelta(rotationPeriod, made[Len(made)][2], made[Len(made)][3])

\* C19: every update(julianDate, deltaTime, timeScale) advances the spin angle of a body with
\* a nonzero rotation period by 2 * pi * (deltaTime / 3600) / rotationPeriodHours * timeScale
\* and by nothing else, and that of a body with rotation period 0 by nothing: the angle is
\* the sum of those advances
C19_SpinAdvance ==
    \A k \in DOMAIN subjects :
        Updated(subjects[k])
            => subjects[k].spin = SpinAfter(subjects[k].body.rotationPeriod, calls)

\* C20: a body of any type configured with rotation period 0 is constructed, and no update
\* changes its spin angle
C20_ZeroPeriodConstructs ==
    \A k \in DOMAIN subjects :
        (subjects[k].config.rotationPeriod = 0 /\ subjects[k].stage # "configured")
            => subjects[k].stage # "not constructed" /\ subjects[k].spin = 0

=========================================================================
